---- MODULE Spec2Model ----
(***************************************************************************)
(* Model of the orders / users API (api-cloudflare-restaurantes).          *)
(*                                                                         *)
(* Layers, as in the source: repositories (the relational store),          *)
(* services (domain rules), controllers and middlewares (HTTP).  Service   *)
(* methods are operators from a store to a result record                   *)
(* [ok, erro, ...store'...]; a thrown Error is ok = FALSE with its         *)
(* message.  Each specification drives one layer:                          *)
(*   Spec             PedidoService methods called one after another       *)
(*   SpecHttpPedidos  HTTP requests to the /pedidos route table            *)
(*   SpecUsuarios     UserService methods called one after another         *)
(*   SpecConc         UserService.register/updateUser interleaved at       *)
(*                    their awaits                                         *)
(*   SpecHttpUsuarios HTTP requests to the /users route table              *)
(*   SpecUserController  UserController methods on validated bodies        *)
(*   SpecArquivos     FileService methods called one after another         *)
(*   SpecLote         FileService.uploadMultipleFiles, its uploads         *)
(*                    interleaved at their awaits                          *)
(*   SpecDeleteFile   FileService.deleteFile cut at its awaits             *)
(*   SpecPaginas      listPedidos and listUsers over stores of many        *)
(*                    records                                              *)
(*   SpecHttpArquivos HTTP requests to the /files route table              *)
(*   SpecConcPedidos  PedidoService.deletePedido/updateStatus interleaved  *)
(*                    at their awaits                                      *)
(***************************************************************************)
EXTENDS Integers, Sequences, FiniteSets, TLC

\* Orders the store may ever hold (ids 1..MaxPedidos).
MaxPedidos == 2

VARIABLES
  pedidos,       \* table pedidos: id -> [cliente, preco, status]
  proxPedidoId,  \* next AUTOINCREMENT id of table pedidos
  usuarios,      \* table usuarios: sequence, id = index
  tokens,        \* JWTs the server has issued to HTTP clients
  agora,         \* clock, in token lifetimes
  criador,       \* history: order id -> userId of the caller of POST /pedidos
  emVoo,         \* requests suspended at an await (SpecConc)
  arquivos,      \* table arquivos: set of rows [id, nome, tamanho, tipo, url]
  proxArquivoId, \* next AUTOINCREMENT id of table arquivos
  objetos,       \* the R2 bucket: set of [key, size, type, uploadedBy]
  proxChave,     \* file keys generated so far, plus one
  lote,          \* the uploads of an uploadMultipleFiles call in flight
  resp           \* the last call and its outcome

vars == <<pedidos, proxPedidoId, usuarios, tokens, agora, criador, emVoo,
          arquivos, proxArquivoId, objetos, proxChave, lote, resp>>
varsPedidos == <<pedidos, proxPedidoId, criador>>
varsUsuarios == <<usuarios, tokens, agora, emVoo>>
varsArquivos == <<arquivos, proxArquivoId, objetos, proxChave, lote>>

\* No file was ever uploaded.
SemArquivos ==
  /\ arquivos = {}
  /\ proxArquivoId = 1
  /\ objetos = {}
  /\ proxChave = 1
  /\ lote = <<>>

----------------------------------------------------------------------------
\* Values

ValidStatuses == {"pendente", "preparando", "pronto", "entregue", "cancelado"}
Clientes == {<<"A", "n", "a">>}
Precos == {-1, 0, 1, 2}

\* The outcome of a service call; every action fills all fields of resp.
Resposta(op, id, entrada, r) ==
  [op |-> op, id |-> id, entrada |-> entrada, ok |-> r.ok, erro |-> r.erro,
   dados |-> r.dados, hdr |-> <<>>, status |-> 0, success |-> "",
   alcancou |-> FALSE, user |-> <<>>]

RespInicial ==
  Resposta("", 0, <<>>, [ok |-> TRUE, erro |-> "", dados |-> <<>>])

\* Partial update: the fields present in data replace those of the row.
Merge(row, data) ==
  [f \in DOMAIN row |-> IF f \in DOMAIN data THEN data[f] ELSE row[f]]

----------------------------------------------------------------------------
\* PedidoRepository

PedidoRepository_create(ps, nid, data) ==
  [i \in DOMAIN ps \cup {nid} |->
     IF i = nid
       THEN [cliente |-> data.cliente, preco |-> data.preco, status |-> "pendente"]
       ELSE ps[i]]

PedidoRepository_findById(ps, id) ==
  IF id \in DOMAIN ps THEN <<ps[id]>> ELSE <<>>

\* db.pedido.update throws on a missing row; the repository returns null.
PedidoRepository_update(ps, id, data) ==
  IF id \in DOMAIN ps
    THEN [ok |-> TRUE, ps |-> [ps EXCEPT ![id] = Merge(@, data)]]
    ELSE [ok |-> FALSE, ps |-> ps]

\* db.pedido.delete throws on a missing row; the repository returns false.
PedidoRepository_delete(ps, id) ==
  IF id \in DOMAIN ps
    THEN [ok |-> TRUE, ps |-> [i \in DOMAIN ps \ {id} |-> ps[i]]]
    ELSE [ok |-> FALSE, ps |-> ps]

----------------------------------------------------------------------------
\* PedidoService

Falha(ps, msg) == [ok |-> FALSE, erro |-> msg, ps |-> ps, dados |-> <<>>]
Sucesso(ps, dados) == [ok |-> TRUE, erro |-> "", ps |-> ps, dados |-> dados]

createPedido_precoNegativo(ps, nid, data) ==
  IF data.preco < 0
    THEN Falha(ps, "Preço deve ser maior que zero")
    ELSE LET ps2 == PedidoRepository_create(ps, nid, data)
         IN Sucesso(ps2, <<ps2[nid]>>)

createPedido(ps, nid, data) ==
  IF data.preco <= 0
    THEN Falha(ps, "Preço deve ser maior que zero")
    ELSE LET ps2 == PedidoRepository_create(ps, nid, data)
         IN Sucesso(ps2, <<ps2[nid]>>)

getPedidoById(ps, id) ==
  LET pedido == PedidoRepository_findById(ps, id)
  IN IF pedido = <<>>
       THEN Falha(ps, "Pedido não encontrado")
       ELSE Sucesso(ps, pedido)

\* updatePedido without its price rule
updatePedido_semRegra(ps, id, data) ==
  IF ~getPedidoById(ps, id).ok
    THEN Falha(ps, "Pedido não encontrado")
    ELSE LET u == PedidoRepository_update(ps, id, data)
         IN IF ~u.ok
              THEN Falha(ps, "Erro ao atualizar pedido")
              ELSE Sucesso(u.ps, <<u.ps[id]>>)

updatePedido(ps, id, data) ==
  IF ~getPedidoById(ps, id).ok
    THEN Falha(ps, "Pedido não encontrado")
    ELSE IF "preco" \in DOMAIN data /\ data.preco <= 0
      THEN Falha(ps, "Preço deve ser maior que zero")
      ELSE LET u == PedidoRepository_update(ps, id, data)
           IN IF ~u.ok
                THEN Falha(ps, "Erro ao atualizar pedido")
                ELSE Sucesso(u.ps, <<u.ps[id]>>)

deletePedido_semRegra(ps, id) ==
  LET pedido == getPedidoById(ps, id)
  IN IF ~pedido.ok
       THEN Falha(ps, "Pedido não encontrado")
       ELSE LET d == PedidoRepository_delete(ps, id)
            IN IF ~d.ok
                 THEN Falha(ps, "Erro ao deletar pedido")
                 ELSE Sucesso(d.ps, <<>>)

deletePedido(ps, id) ==
  LET pedido == getPedidoById(ps, id)
  IN IF ~pedido.ok
       THEN Falha(ps, "Pedido não encontrado")
       ELSE IF pedido.dados[1].status = "entregue"
         THEN Falha(ps, "Não é possível deletar pedidos já entregues")
         ELSE LET d == PedidoRepository_delete(ps, id)
              IN IF ~d.ok
                   THEN Falha(ps, "Erro ao deletar pedido")
                   ELSE Sucesso(d.ps, <<>>)

updateStatus(ps, id, status) ==
  IF status \notin {"pendente", "preparando", "pronto", "entregue", "cancelado"}
    THEN Falha(ps, "Status inválido")
    ELSE updatePedido(ps, id, [status |-> status])

----------------------------------------------------------------------------
\* Inputs of the service calls

\* An id not yet assigned, or already deleted, is the absent one.
Ids == 1..MaxPedidos

CreateInputs == [cliente : Clientes, preco : Precos]

UpdateInputs ==
  {[status |-> s] : s \in ValidStatuses}
    \cup {[preco |-> p] : p \in Precos}
    \cup {[cliente |-> c] : c \in Clientes}
    \cup [status : {"pronto"}, preco : Precos]
    \cup {[x \in {} |-> 0]}

StatusInputs == ValidStatuses \cup {"devolvido"}

----------------------------------------------------------------------------
\* Spec: the methods of PedidoService, called one after another

SvcCreatePedido ==
  \E data \in CreateInputs :
    LET r == createPedido(pedidos, proxPedidoId, data)
    IN /\ r.ok => proxPedidoId <= MaxPedidos
       /\ pedidos' = r.ps
       /\ proxPedidoId' = IF r.ok THEN proxPedidoId + 1 ELSE proxPedidoId
       /\ resp' = Resposta("createPedido", 0, data, r)
       /\ UNCHANGED <<criador, varsUsuarios, varsArquivos>>

SvcGetPedidoById ==
  \E id \in Ids :
    LET r == getPedidoById(pedidos, id)
    IN /\ resp' = Resposta("getPedidoById", id, <<>>, r)
       /\ UNCHANGED <<varsPedidos, varsUsuarios, varsArquivos>>

SvcUpdatePedido ==
  \E id \in Ids, data \in UpdateInputs :
    LET r == updatePedido(pedidos, id, data)
    IN /\ pedidos' = r.ps
       /\ resp' = Resposta("updatePedido", id, data, r)
       /\ UNCHANGED <<proxPedidoId, criador, varsUsuarios, varsArquivos>>

SvcDeletePedido ==
  \E id \in Ids :
    LET r == deletePedido(pedidos, id)
    IN /\ pedidos' = r.ps
       /\ resp' = Resposta("deletePedido", id, <<>>, r)
       /\ UNCHANGED <<proxPedidoId, criador, varsUsuarios, varsArquivos>>

SvcUpdateStatus ==
  \E id \in Ids, status \in StatusInputs :
    LET r == updateStatus(pedidos, id, status)
    IN /\ pedidos' = r.ps
       /\ resp' = Resposta("updateStatus", id, status, r)
       /\ UNCHANGED <<proxPedidoId, criador, varsUsuarios, varsArquivos>>

Init ==
  /\ pedidos = <<>>
  /\ proxPedidoId = 1
  /\ usuarios = <<>>
  /\ tokens = {}
  /\ agora = 0
  /\ criador = <<>>
  /\ emVoo = <<>>
  /\ SemArquivos
  /\ resp = RespInicial

Next ==
  \/ SvcCreatePedido
  \/ SvcGetPedidoById
  \/ SvcUpdatePedido
  \/ SvcDeletePedido
  \/ SvcUpdateStatus

Spec == Init /\ [][Next]_vars

----------------------------------------------------------------------------
\* Claims checked under Spec

\* The lifecycle of section 4.2: pendente -> preparando -> pronto -> entregue,
\* cancelado from any of the first three.
Transicoes ==
  {<<"pendente", "preparando">>, <<"preparando", "pronto">>, <<"pronto", "entregue">>,
   <<"pendente", "cancelado">>, <<"preparando", "cancelado">>, <<"pronto", "cancelado">>}

\* C1: every change of an order's status follows the lifecycle, and an order
\* that is entregue or cancelado never changes status again.
C1_StatusSegueCicloDeVida ==
  [][\A id \in DOMAIN pedidos \cap DOMAIN pedidos' :
       pedidos'[id].status # pedidos[id].status
         => <<pedidos[id].status, pedidos'[id].status>> \in Transicoes]_vars

\* C2: deletePedido(id) on an existing order fails exactly when its status is
\* entregue; a failed call leaves the store as it was, a successful one removes
\* that order only and getPedidoById(id) then fails with not-found; on an absent
\* id it fails with not-found.  A removed id never comes back.
C2_DeleteFalhaSseEntregue ==
  [][/\ resp'.op = "deletePedido" =>
          LET id == resp'.id
          IN IF id \in DOMAIN pedidos
               THEN /\ (~resp'.ok) <=> (pedidos[id].status = "entregue")
                    /\ ~resp'.ok => pedidos' = pedidos
                    /\ resp'.ok =>
                         /\ DOMAIN pedidos' = DOMAIN pedidos \ {id}
                         /\ \A j \in DOMAIN pedidos' : pedidos'[j] = pedidos[j]
                         /\ ~getPedidoById(pedidos', id).ok
                         /\ getPedidoById(pedidos', id).erro = "Pedido não encontrado"
               ELSE /\ ~resp'.ok
                    /\ resp'.erro = "Pedido não encontrado"
                    /\ pedidos' = pedidos
     /\ \A id \in 1..(proxPedidoId - 1) :
          id \notin DOMAIN pedidos => id \notin DOMAIN pedidos']_vars

\* C2 witness: a delete was refused on a delivered order, which is still stored.
C2_Witness ==
  /\ resp.op = "deletePedido"
  /\ ~resp.ok
  /\ resp.id \in DOMAIN pedidos
  /\ pedidos[resp.id].status = "entregue"

\* C3: createPedido with preco <= 0 fails with the price rule's error and adds
\* nothing; with preco > 0 it adds exactly one order, with status pendente, and
\* leaves every existing order as it was.
C3_CreateRegraDoPreco ==
  [][resp'.op = "createPedido" =>
       IF resp'.entrada.preco <= 0
         THEN /\ ~resp'.ok
              /\ resp'.erro = "Preço deve ser maior que zero"
              /\ pedidos' = pedidos
         ELSE /\ resp'.ok
              /\ \E nid \in DOMAIN pedidos' \ DOMAIN pedidos :
                   /\ DOMAIN pedidos' = DOMAIN pedidos \cup {nid}
                   /\ pedidos'[nid].status = "pendente"
                   /\ pedidos'[nid].preco = resp'.entrada.preco
              /\ \A j \in DOMAIN pedidos : pedidos'[j] = pedidos[j]]_vars

\* C3 witness: an order was created while another one was already stored.
C3_Witness ==
  /\ resp.op = "createPedido"
  /\ resp.ok
  /\ resp.entrada.preco > 0
  /\ Cardinality(DOMAIN pedidos) >= 2

----------------------------------------------------------------------------
\* hashUtils (bcrypt): the hash of a password is not the password, and
\* comparePassword accepts exactly the password that was hashed.

hashPassword(password) == <<"bcrypt", password>>

comparePassword(password, hash) == hash = <<"bcrypt", password>>

----------------------------------------------------------------------------
\* jwtUtils.  A token carries its claims, its expiry and the key that signed it.

JwtSecret == "JWT_SECRET"

\* Lifetime of a token (JWT_EXPIRES_IN), the unit of the clock.
ExpiresIn == 1

generateToken(payload, t) ==
  [userId |-> payload.userId, email |-> payload.email, role |-> payload.role,
   exp |-> t + ExpiresIn, chave |-> JwtSecret]

verifyToken(token, t) ==
  IF token.chave = JwtSecret /\ t < token.exp
    THEN <<[userId |-> token.userId, email |-> token.email, role |-> token.role]>>
    ELSE <<>>

\* An Authorization header is <<>> when absent, else <<scheme prefix, token>>
\* or <<scheme prefix>> when nothing follows the prefix.
extractTokenFromHeader(authHeader) ==
  IF authHeader = <<>> \/ Head(authHeader) # "Bearer "
    THEN <<>>
    ELSE Tail(authHeader)

----------------------------------------------------------------------------
\* authMiddleware.ts

Rejeita(status, msg) == [passa |-> FALSE, status |-> status, erro |-> msg, user |-> <<>>]
Passa(user) == [passa |-> TRUE, status |-> 0, erro |-> "", user |-> user]

authMiddleware_semVerificar(authHeader, t) ==
  LET token == extractTokenFromHeader(authHeader)
  IN IF token = <<>>
       THEN Rejeita(401, "Token de acesso requerido")
       ELSE Passa(<<[userId |-> token[1].userId, email |-> token[1].email,
                     role |-> token[1].role]>>)

\* The handler that authMiddleware() returns.
authMiddleware(authHeader, t) ==
  LET token == extractTokenFromHeader(authHeader)
  IN IF token = <<>>
       THEN Rejeita(401, "Token de acesso requerido")
       ELSE LET payload == verifyToken(token[1], t)
            IN IF payload = <<>>
                 THEN Rejeita(401, "Token inválido ou expirado")
                 ELSE Passa(payload)

\* The handler that roleMiddleware(requiredRoles) returns; user is c.get('user').
roleMiddleware(requiredRoles, user) ==
  IF user = <<>>
    THEN Rejeita(401, "Usuário não autenticado")
    ELSE IF user[1].role \notin requiredRoles
      THEN Rejeita(403, "Acesso negado. Permissões insuficientes")
      ELSE Passa(user)

----------------------------------------------------------------------------
\* pedidoValidator.ts (zod schemas): TRUE when the body parses.

createPedidoSchema(body) == body.preco > 0 /\ body.preco <= 999

updatePedidoSchema(body) ==
  /\ "preco" \in DOMAIN body => (body.preco > 0 /\ body.preco <= 999)
  /\ "status" \in DOMAIN body =>
       body.status \in {"pendente", "preparando", "pronto", "entregue", "cancelado"}

----------------------------------------------------------------------------
\* Listing: PedidoRepository.findMany, countByStatus and PedidoService.listPedidos

LowerChar(c) == CASE c = "A" -> "a" [] c = "N" -> "n" [] OTHER -> c
Lower(s) == [i \in DOMAIN s |-> LowerChar(s[i])]

Contains(s, q) ==
  \E i \in 0..(Len(s) - Len(q)) : SubSeq(s, i + 1, i + Len(q)) = q

\* The ids of S, newest first (orderBy criadoEm desc; ids grow with time).
RECURSIVE SortDesc(_)
SortDesc(S) ==
  IF S = {} THEN <<>>
  ELSE LET m == CHOOSE x \in S : \A y \in S : y <= x
       IN <<m>> \o SortDesc(S \ {m})

Min(a, b) == IF a <= b THEN a ELSE b

\* findMany reads page, limit, status and cliente of the query, nothing else.
PedidoRepository_findMany(ps, query) ==
  LET skip == (query.page - 1) * query.limit
      where == {i \in DOMAIN ps :
                  /\ "status" \in DOMAIN query => ps[i].status = query.status
                  /\ "cliente" \in DOMAIN query =>
                       Contains(Lower(ps[i].cliente), Lower(query.cliente))}
      todos == SortDesc(where)
  IN [pedidos |-> SubSeq(todos, skip + 1, Min(Len(todos), skip + query.limit)),
      total |-> Cardinality(where)]

PedidoRepository_countByStatus(ps) ==
  [s \in {ps[i].status : i \in DOMAIN ps} |->
     Cardinality({i \in DOMAIN ps : ps[i].status = s})]

\* Math.floor in the place of Math.ceil
Ceil_floor(a, b) == a \div b

\* Math.ceil(a / b) for b >= 1
Ceil(a, b) == (a + b - 1) \div b

listPedidos(ps, query) ==
  LET r == PedidoRepository_findMany(ps, query)
      totalPages == Ceil(r.total, query.limit)
  IN Sucesso(ps, [pedidos |-> r.pedidos,
                  pagination |-> [page |-> query.page, limit |-> query.limit,
                                  total |-> r.total, totalPages |-> totalPages,
                                  hasNext |-> query.page < totalPages,
                                  hasPrev |-> query.page > 1]])

getStatistics(ps) == Sucesso(ps, PedidoRepository_countByStatus(ps))

----------------------------------------------------------------------------
\* PedidoController.  A method returns the HTTP response and the store it leaves:
\* success is "true", "false", or "" when the body has no success field.

Http(status, success, erro, dados, ps) ==
  [status |-> status, success |-> success, erro |-> erro, dados |-> dados, ps |-> ps]

\* catch (error): error.status || 500; the services throw plain Errors
Capturado(r) == Http(500, "false", r.erro, <<>>, r.ps)

\* c.get('user')?.userId and ?.role; 0 and "" stand for undefined
UserId(user) == IF user = <<>> THEN 0 ELSE user[1].userId
Role(user) == IF user = <<>> THEN "" ELSE user[1].role

PedidoController_create(ps, nid, user, body) ==
  IF ~createPedidoSchema(body)
    THEN Http(500, "false", "ZodError", <<>>, ps)
    ELSE IF UserId(user) = 0
      THEN Http(401, "", "Usuário não autenticado", <<>>, ps)
      ELSE LET r == createPedido(ps, nid, body)
           IN IF ~r.ok THEN Capturado(r)
              ELSE Http(201, "true", "", r.dados, r.ps)

PedidoController_getById(ps, user, id) ==
  LET r == getPedidoById(ps, id)
  IN IF ~r.ok THEN Capturado(r)
     ELSE IF Role(user) # "ADMIN" /\ id # UserId(user)
       THEN Http(403, "", "Acesso negado", <<>>, ps)
       ELSE Http(200, "true", "", r.dados, ps)

PedidoController_list(ps, user, query) ==
  LET filters == IF Role(user) = "ADMIN"
                   THEN query
                   ELSE [f \in DOMAIN query \cup {"usuarioId"} |->
                           IF f = "usuarioId" THEN UserId(user) ELSE query[f]]
      r == listPedidos(ps, filters)
  IN Http(200, "true", "", r.dados, ps)

PedidoController_update(ps, user, id, body) ==
  IF ~updatePedidoSchema(body)
    THEN Http(500, "false", "ZodError", <<>>, ps)
    ELSE LET r == updatePedido(ps, id, body)
         IN IF ~r.ok THEN Capturado(r)
            ELSE Http(200, "true", "", r.dados, r.ps)

PedidoController_delete(ps, user, id) ==
  LET r == deletePedido(ps, id)
  IN IF ~r.ok THEN Capturado(r)
     ELSE Http(200, "true", "", <<>>, r.ps)

\* body is the parsed JSON: the status field may be missing
PedidoController_updateStatus(ps, user, id, body) ==
  IF "status" \notin DOMAIN body
    THEN Http(400, "", "Status é obrigatório", <<>>, ps)
    ELSE LET r == updateStatus(ps, id, body.status)
         IN IF ~r.ok THEN Capturado(r)
            ELSE Http(200, "true", "", r.dados, r.ps)

PedidoController_getStats(ps, user) ==
  Http(200, "true", "", getStatistics(ps).dados, ps)

----------------------------------------------------------------------------
\* createPedidoRoutes: authMiddleware() on every route, then the route's
\* zValidator('json', schema) where it has one (400 on a body that does not
\* parse), then the controller.

Rotas == {"POST /", "GET /", "GET /stats", "GET /:id", "PUT /:id",
          "PATCH /:id/status", "DELETE /:id"}

\* The response of the route's handlers after authMiddleware() let the request through.
pedidoRoutes(rota, ps, nid, user, id, body) ==
  CASE rota = "POST /" ->
         IF ~createPedidoSchema(body)
           THEN [alcancou |-> FALSE, r |-> Http(400, "false", "ZodError", <<>>, ps)]
           ELSE [alcancou |-> TRUE, r |-> PedidoController_create(ps, nid, user, body)]
    [] rota = "GET /" ->
         [alcancou |-> TRUE, r |-> PedidoController_list(ps, user, body)]
    [] rota = "GET /stats" ->
         [alcancou |-> TRUE, r |-> PedidoController_getStats(ps, user)]
    [] rota = "GET /:id" ->
         [alcancou |-> TRUE, r |-> PedidoController_getById(ps, user, id)]
    [] rota = "PUT /:id" ->
         IF ~updatePedidoSchema(body)
           THEN [alcancou |-> FALSE, r |-> Http(400, "false", "ZodError", <<>>, ps)]
           ELSE [alcancou |-> TRUE, r |-> PedidoController_update(ps, user, id, body)]
    [] rota = "PATCH /:id/status" ->
         [alcancou |-> TRUE, r |-> PedidoController_updateStatus(ps, user, id, body)]
    [] rota = "DELETE /:id" ->
         [alcancou |-> TRUE, r |-> PedidoController_delete(ps, user, id)]

----------------------------------------------------------------------------
\* SpecHttpPedidos: HTTP requests to the /pedidos route table, sent at one
\* instant by the clients of three registered users.

\* Orders created over HTTP in SpecHttpPedidos.
MaxPedidosHttp == 1

NovoUsuario(email, senha, role) ==
  [email |-> email, senha |-> hashPassword(senha), role |-> role, ativo |-> TRUE]

Payload(us, id) == [userId |-> id, email |-> us[id].email, role |-> us[id].role]

\* Two users of role user and one admin, as register leaves them.
UsuariosHttp ==
  <<NovoUsuario("a@x.com", "Senha123", "user"),
    NovoUsuario("b@x.com", "Senha123", "user"),
    NovoUsuario("c@x.com", "Senha123", "admin")>>

\* User 1 registered one lifetime ago and logged in again now; users 2 and 3
\* registered now.
TokensHttp ==
  {generateToken(Payload(UsuariosHttp, 1), 0)}
    \cup {generateToken(Payload(UsuariosHttp, i), 1) : i \in 1..3}

\* A token signed with a key that is not the server's.
TokenForjado ==
  [userId |-> 3, email |-> "c@x.com", role |-> "admin", exp |-> 2, chave |-> "outra"]

\* The Authorization headers a client can send, knowing the tokens toks.
Headers(toks) ==
  {<<>>, <<"Bearer ">>, <<"Bearer ", TokenForjado>>, <<"Basic ", TokenForjado>>}
    \cup {<<"Bearer ", t>> : t \in toks}

IdsHttp == 1..MaxPedidosHttp

CreateBodies == [cliente : {<<"A", "n", "a">>}, preco : {0, 1}]

UpdateBodies ==
  {[status |-> s] : s \in ValidStatuses} \cup {[preco |-> p] : p \in {0, 1}}

StatusBodies ==
  {[status |-> s] : s \in ValidStatuses \cup {"devolvido"}} \cup {[x \in {} |-> 0]}

Queries ==
  {[page |-> 1, limit |-> 10],
   [page |-> 1, limit |-> 10, status |-> "pendente"],
   [page |-> 1, limit |-> 10, cliente |-> <<"a", "N">>]}

\* What a request leaves behind: the route's response x (with the store in
\* x.r.ps) to the caller a.user, who sent the header h.
Responde(h, rota, id, a, x) ==
  /\ x.r.status = 201 => proxPedidoId <= MaxPedidosHttp
  /\ pedidos' = x.r.ps
  /\ proxPedidoId' = IF x.r.status = 201 THEN proxPedidoId + 1 ELSE proxPedidoId
  /\ criador' = [i \in DOMAIN x.r.ps |->
                   IF i \in DOMAIN criador THEN criador[i] ELSE UserId(a.user)]
  /\ resp' = [op |-> rota, id |-> id, entrada |-> <<>>, ok |-> x.r.status < 400,
              erro |-> x.r.erro, dados |-> x.r.dados, hdr |-> h, status |-> x.r.status,
              success |-> x.r.success, alcancou |-> x.alcancou, user |-> a.user]
  /\ UNCHANGED <<varsUsuarios, varsArquivos>>

\* One request: authMiddleware() first; the body is read by the route's
\* handlers, which run only when the middleware let the request through.
HttpPedido(h, rota, id, bodies) ==
  \E a \in {authMiddleware(h, agora)} :
    IF a.passa
      THEN \E body \in bodies :
             \E x \in {pedidoRoutes(rota, pedidos, proxPedidoId, a.user, id, body)} :
               Responde(h, rota, id, a, x)
      ELSE Responde(h, rota, id, a,
                    [alcancou |-> FALSE, r |-> Http(a.status, "", a.erro, <<>>, pedidos)])

PostPedidos ==
  \E h \in Headers(tokens) : HttpPedido(h, "POST /", 0, CreateBodies)
GetPedidos ==
  \E h \in Headers(tokens) : HttpPedido(h, "GET /", 0, Queries)
GetPedidosStats ==
  \E h \in Headers(tokens) : HttpPedido(h, "GET /stats", 0, {<<>>})
GetPedido ==
  \E h \in Headers(tokens), id \in IdsHttp : HttpPedido(h, "GET /:id", id, {<<>>})
PutPedido ==
  \E h \in Headers(tokens), id \in IdsHttp : HttpPedido(h, "PUT /:id", id, UpdateBodies)
PatchPedidoStatus ==
  \E h \in Headers(tokens), id \in IdsHttp :
    HttpPedido(h, "PATCH /:id/status", id, StatusBodies)
DeletePedido ==
  \E h \in Headers(tokens), id \in IdsHttp : HttpPedido(h, "DELETE /:id", id, {<<>>})

InitHttpPedidos ==
  /\ pedidos = <<>>
  /\ proxPedidoId = 1
  /\ usuarios = UsuariosHttp
  /\ tokens = TokensHttp
  /\ agora = 1
  /\ criador = <<>>
  /\ emVoo = <<>>
  /\ SemArquivos
  /\ resp = RespInicial

NextHttpPedidos ==
  \/ PostPedidos
  \/ GetPedidos
  \/ GetPedidosStats
  \/ GetPedido
  \/ PutPedido
  \/ PatchPedidoStatus
  \/ DeletePedido

SpecHttpPedidos == InitHttpPedidos /\ [][NextHttpPedidos]_vars

----------------------------------------------------------------------------
\* Claims checked under SpecHttpPedidos

\* The header carries a token the server issued and that has not expired.
TokenValido(h) ==
  /\ Len(h) = 2
  /\ h[1] = "Bearer "
  /\ h[2] \in tokens
  /\ agora < h[2].exp

\* C4: on the routes behind authMiddleware() the controller runs only for a
\* request with a present, valid, unexpired bearer token, and its identity is
\* then the token's claims (userId, email, role); a request with no header, with
\* a header that does not start with "Bearer ", or with an invalid or expired
\* token gets 401, never reaches the controller and changes nothing.
C4_AuthObrigatoria ==
  [][resp'.op \in Rotas /\ resp' # resp =>
       LET h == resp'.hdr
       IN IF TokenValido(h)
            THEN /\ resp'.user = <<[userId |-> h[2].userId, email |-> h[2].email,
                                    role |-> h[2].role]>>
                 /\ resp'.status # 401
                 /\ resp'.alcancou \/ resp'.status = 400
            ELSE /\ resp'.status = 401
                 /\ ~resp'.alcancou
                 /\ resp'.user = <<>>
                 /\ pedidos' = pedidos]_vars

\* C4 witness: a request with an expired token was turned away with 401 after
\* one with a valid token had created an order.
C4_Witness ==
  /\ resp.op \in Rotas
  /\ Len(resp.hdr) = 2
  /\ resp.hdr[2] \in tokens
  /\ resp.hdr[2].exp <= agora
  /\ resp.status = 401
  /\ pedidos # <<>>

NaoAdmin(uid) == usuarios[uid].role = "user"

\* C6: when a non-admin user created an order, GET /pedidos/:id of that order
\* by another non-admin user is answered 403 and by its creator with the order.
C6_GetByIdSoParaODono ==
  (/\ resp.op = "GET /:id"
   /\ resp.alcancou
   /\ resp.id \in DOMAIN pedidos
   /\ NaoAdmin(criador[resp.id])
   /\ NaoAdmin(UserId(resp.user)))
  => IF UserId(resp.user) = criador[resp.id]
       THEN resp.status = 200 /\ resp.dados = <<pedidos[resp.id]>>
       ELSE resp.status = 403

\* C7: PUT /pedidos/:id, PATCH /pedidos/:id/status and DELETE /pedidos/:id asked
\* by a non-admin caller who did not create the order are rejected and leave
\* the order as it was.
C7_MutacaoSoPeloDono ==
  [][(/\ resp'.op \in {"PUT /:id", "PATCH /:id/status", "DELETE /:id"}
      /\ resp' # resp
      /\ resp'.alcancou
      /\ resp'.id \in DOMAIN pedidos
      /\ NaoAdmin(UserId(resp'.user))
      /\ UserId(resp'.user) # criador[resp'.id])
     => ~resp'.ok /\ pedidos' = pedidos]_vars

\* C8: GET /pedidos by a non-admin caller returns only the orders that caller
\* created and counts only those in pagination.total; by an admin it returns
\* every order that matches the filters.
C8_ListaSoOsProprios ==
  (resp.op = "GET /" /\ resp.alcancou)
  => LET ids == {resp.dados.pedidos[k] : k \in DOMAIN resp.dados.pedidos}
     IN IF NaoAdmin(UserId(resp.user))
          THEN /\ \A i \in ids : criador[i] = UserId(resp.user)
               /\ resp.dados.pagination.total
                    <= Cardinality({i \in DOMAIN pedidos : criador[i] = UserId(resp.user)})
          ELSE resp.dados.pagination.total = Cardinality(ids)

----------------------------------------------------------------------------
\* UserRepository.  The table usuarios is a sequence: a row's id is its index
\* (rows are never deleted).  A db call that throws is ok = FALSE.

\* Users the table may ever hold.
MaxUsuarios == 2

Emails == {"a@x.com", "b@x.com"}
Senhas == {"Senha123", "Outra456"}
Roles == {"user", "admin"}

\* const { senha, ...userWithoutPassword } = user: the row, with its id, less
\* the field senha
SemSenha(row, id) ==
  LET user == [f \in DOMAIN row \cup {"id"} |-> IF f = "id" THEN id ELSE row[f]]
  IN [f \in DOMAIN user \ {"senha"} |-> user[f]]

\* select: { id, nome, email, role, ativo, criadoEm, atualizadoEm }
Select(row, id) ==
  [id |-> id, email |-> row.email, role |-> row.role, ativo |-> row.ativo]

UserRepository_create_semUnique(us, data) ==
  [ok |-> TRUE,
   us |-> Append(us, [email |-> data.email, senha |-> data.senha,
                      role |-> IF "role" \in DOMAIN data THEN data.role ELSE "user",
                      ativo |-> TRUE])]

\* db.usuario.create: the column email is UNIQUE, ativo defaults to true
UserRepository_create(us, data) ==
  IF \E i \in DOMAIN us : us[i].email = data.email
    THEN [ok |-> FALSE, us |-> us]
    ELSE [ok |-> TRUE,
          us |-> Append(us, [email |-> data.email, senha |-> data.senha,
                             role |-> IF "role" \in DOMAIN data THEN data.role ELSE "user",
                             ativo |-> TRUE])]

UserRepository_findById(us, id) ==
  IF id \in DOMAIN us THEN <<us[id]>> ELSE <<>>

UserRepository_findByEmail_soAtivos(us, email) ==
  IF \E i \in DOMAIN us : us[i].email = email /\ us[i].ativo
    THEN LET i == CHOOSE i \in DOMAIN us : us[i].email = email /\ us[i].ativo
         IN <<[id |-> i, row |-> us[i]]>>
    ELSE <<>>

UserRepository_findByEmail(us, email) ==
  IF \E i \in DOMAIN us : us[i].email = email
    THEN LET i == CHOOSE i \in DOMAIN us : us[i].email = email
         IN <<[id |-> i, row |-> us[i]]>>
    ELSE <<>>

\* only active users, newest first, without senha
UserRepository_findMany(us, page, limit) ==
  LET skip == (page - 1) * limit
      where == {i \in DOMAIN us : us[i].ativo}
      todos == SortDesc(where)
      pagina == SubSeq(todos, skip + 1, Min(Len(todos), skip + limit))
  IN [usuarios |-> [k \in DOMAIN pagina |-> Select(us[pagina[k]], pagina[k])],
      total |-> Cardinality(where)]

\* db.usuario.update throws on a missing row and on a duplicate email; the
\* repository returns null.
UserRepository_update(us, id, data) ==
  IF id \notin DOMAIN us
    THEN [ok |-> FALSE, us |-> us]
    ELSE IF "email" \in DOMAIN data
            /\ \E j \in DOMAIN us : j # id /\ us[j].email = data.email
      THEN [ok |-> FALSE, us |-> us]
      ELSE [ok |-> TRUE, us |-> [us EXCEPT ![id] = Merge(@, data)]]

UserRepository_updatePassword(us, id, hashedPassword) ==
  IF id \notin DOMAIN us
    THEN [ok |-> FALSE, us |-> us]
    ELSE [ok |-> TRUE, us |-> [us EXCEPT ![id].senha = hashedPassword]]

UserRepository_deactivate(us, id) ==
  IF id \notin DOMAIN us
    THEN [ok |-> FALSE, us |-> us]
    ELSE [ok |-> TRUE, us |-> [us EXCEPT ![id].ativo = FALSE]]

\* excludeId is always a row id (>= 1), so the id filter is always applied
UserRepository_emailExists(us, email, excludeId) ==
  \E j \in DOMAIN us : us[j].email = email /\ j # excludeId

----------------------------------------------------------------------------
\* UserService.  A result is [ok, erro, us, dados].

FalhaU(us, msg) == [ok |-> FALSE, erro |-> msg, us |-> us, dados |-> <<>>]
SucessoU(us, dados) == [ok |-> TRUE, erro |-> "", us |-> us, dados |-> dados]

\* register after its findByEmail: hash, create, sign the token
register_create(us, data, t) ==
  LET c == UserRepository_create(
             us, [f \in DOMAIN data |->
                    IF f = "senha" THEN hashPassword(data.senha) ELSE data[f]])
      id == Len(c.us)
  IN IF ~c.ok
       THEN FalhaU(us, "Unique constraint failed on the fields: (email)")
       ELSE SucessoU(c.us, [user |-> SemSenha(c.us[id], id),
                            token |-> generateToken(Payload(c.us, id), t)])

register(us, data, t) ==
  IF UserRepository_findByEmail(us, data.email) # <<>>
    THEN FalhaU(us, "Email já está em uso")
    ELSE register_create(us, data, t)

login_contaInativa(us, data, t) ==
  LET user == UserRepository_findByEmail(us, data.email)
  IN IF user = <<>>
       THEN FalhaU(us, "Credenciais inválidas")
       ELSE IF ~user[1].row.ativo
         THEN FalhaU(us, "Conta inativa")
         ELSE IF ~comparePassword(data.senha, user[1].row.senha)
           THEN FalhaU(us, "Credenciais inválidas")
           ELSE SucessoU(us, [user |-> SemSenha(user[1].row, user[1].id),
                              token |-> generateToken(Payload(us, user[1].id), t)])

login(us, data, t) ==
  LET user == UserRepository_findByEmail(us, data.email)
  IN IF user = <<>> \/ ~user[1].row.ativo
       THEN FalhaU(us, "Credenciais inválidas")
       ELSE IF ~comparePassword(data.senha, user[1].row.senha)
         THEN FalhaU(us, "Credenciais inválidas")
         ELSE SucessoU(us, [user |-> SemSenha(user[1].row, user[1].id),
                            token |-> generateToken(Payload(us, user[1].id), t)])

getUserById_comSenha(us, id) ==
  LET user == UserRepository_findById(us, id)
  IN IF user = <<>> \/ ~user[1].ativo
       THEN FalhaU(us, "Usuário não encontrado")
       ELSE SucessoU(us, [f \in DOMAIN user[1] \cup {"id"} |->
                            IF f = "id" THEN id ELSE user[1][f]])

getUserById(us, id) ==
  LET user == UserRepository_findById(us, id)
  IN IF user = <<>> \/ ~user[1].ativo
       THEN FalhaU(us, "Usuário não encontrado")
       ELSE SucessoU(us, SemSenha(user[1], id))

listUsers(us, page, limit) ==
  LET r == UserRepository_findMany(us, page, limit)
      totalPages == Ceil(r.total, limit)
  IN SucessoU(us, [usuarios |-> r.usuarios,
                   pagination |-> [page |-> page, limit |-> limit, total |-> r.total,
                                   totalPages |-> totalPages,
                                   hasNext |-> page < totalPages,
                                   hasPrev |-> page > 1]])

\* updateUser after its getUserById and emailExists: hash, update
updateUser_update(us, id, data) ==
  LET updateData == [f \in DOMAIN data |->
                       IF f = "senha" THEN hashPassword(data.senha) ELSE data[f]]
      u == UserRepository_update(us, id, updateData)
  IN IF ~u.ok
       THEN FalhaU(us, "Erro ao atualizar usuário")
       ELSE SucessoU(u.us, SemSenha(u.us[id], id))

updateUser(us, id, data) ==
  IF ~getUserById(us, id).ok
    THEN FalhaU(us, "Usuário não encontrado")
    ELSE IF "email" \in DOMAIN data /\ UserRepository_emailExists(us, data.email, id)
      THEN FalhaU(us, "Email já está em uso")
      ELSE updateUser_update(us, id, data)

changePassword_semSenhaAtual(us, userId, data) ==
  LET user == UserRepository_findById(us, userId)
  IN IF user = <<>> \/ ~user[1].ativo
       THEN FalhaU(us, "Usuário não encontrado")
       ELSE LET u == UserRepository_updatePassword(
                       us, userId, hashPassword(data.novaSenha))
            IN IF ~u.ok
                 THEN FalhaU(us, "Erro ao alterar senha")
                 ELSE SucessoU(u.us, <<>>)

changePassword(us, userId, data) ==
  LET user == UserRepository_findById(us, userId)
  IN IF user = <<>> \/ ~user[1].ativo
       THEN FalhaU(us, "Usuário não encontrado")
       ELSE IF ~comparePassword(data.senhaAtual, user[1].senha)
         THEN FalhaU(us, "Senha atual incorreta")
         ELSE LET u == UserRepository_updatePassword(
                         us, userId, hashPassword(data.novaSenha))
              IN IF ~u.ok
                   THEN FalhaU(us, "Erro ao alterar senha")
                   ELSE SucessoU(u.us, <<>>)

deactivateUser(us, id) ==
  IF ~getUserById(us, id).ok
    THEN FalhaU(us, "Usuário não encontrado")
    ELSE LET d == UserRepository_deactivate(us, id)
         IN IF ~d.ok
              THEN FalhaU(us, "Erro ao desativar usuário")
              ELSE SucessoU(d.us, <<>>)

----------------------------------------------------------------------------
\* SpecUsuarios: the methods of UserService, called one after another

IdsUsuarios == 1..MaxUsuarios

\* RegisterUserInput: role is "user" when the request leaves it out
RegisterInputs == [email : Emails, senha : Senhas, role : Roles]

LoginInputs == [email : Emails, senha : Senhas]

UpdateUserInputs ==
  {[email |-> e] : e \in Emails}
    \cup {[senha |-> s] : s \in Senhas}
    \cup {[role |-> r] : r \in Roles}
    \cup {[ativo |-> b] : b \in BOOLEAN}

ChangePasswordInputs == [senhaAtual : Senhas, novaSenha : Senhas]

\* A call of a UserService method that leaves the table us behind.
ChamadaU(op, id, entrada, r) ==
  /\ usuarios' = r.us
  /\ resp' = Resposta(op, id, entrada, r)
  /\ UNCHANGED <<varsPedidos, tokens, agora, emVoo, varsArquivos>>

SvcRegister ==
  \E data \in RegisterInputs :
    \E r \in {register(usuarios, data, agora)} :
      /\ r.ok => Len(usuarios) < MaxUsuarios
      /\ ChamadaU("register", 0, data, r)

SvcLogin ==
  \E data \in LoginInputs : ChamadaU("login", 0, data, login(usuarios, data, agora))

SvcGetUserById ==
  \E id \in IdsUsuarios : ChamadaU("getUserById", id, <<>>, getUserById(usuarios, id))

SvcListUsers ==
  ChamadaU("listUsers", 0, <<>>, listUsers(usuarios, 1, 10))

SvcUpdateUser ==
  \E id \in IdsUsuarios, data \in UpdateUserInputs :
    ChamadaU("updateUser", id, data, updateUser(usuarios, id, data))

SvcChangePassword ==
  \E id \in IdsUsuarios, data \in ChangePasswordInputs :
    ChamadaU("changePassword", id, data, changePassword(usuarios, id, data))

SvcDeactivateUser ==
  \E id \in IdsUsuarios :
    ChamadaU("deactivateUser", id, <<>>, deactivateUser(usuarios, id))

NextUsuarios ==
  \/ SvcRegister
  \/ SvcLogin
  \/ SvcGetUserById
  \/ SvcListUsers
  \/ SvcUpdateUser
  \/ SvcChangePassword
  \/ SvcDeactivateUser

SpecUsuarios == Init /\ [][NextUsuarios]_vars

----------------------------------------------------------------------------
\* Claims checked under SpecUsuarios

----------------------------------------------------------------------------
\* SpecConc: register and updateUser requests in flight at the same time.
\* Each method is cut at its awaits on the database: register reads
\* (findByEmail) and later writes (create); updateUser reads (getUserById),
\* reads again (emailExists) and later writes (update).  A request occupies a
\* slot of emVoo between its first read and its last step.

\* Requests in flight at once.
MaxEmVoo == 2

Slots == 1..MaxEmVoo

Livre == [op |-> "", pc |-> "livre", id |-> 0, data |-> <<>>]

RegisterInputsConc == [email : Emails, senha : {"Senha123"}]

UpdateUserInputsConc == {[email |-> e] : e \in Emails}

\* the worker takes the lowest free slot
SlotLivre(p) ==
  /\ emVoo[p].pc = "livre"
  /\ \A q \in Slots : q < p => emVoo[q].pc # "livre"

\* The request in slot p ends with the result r.
Termina(p, r) ==
  /\ usuarios' = r.us
  /\ resp' = Resposta(emVoo[p].op, emVoo[p].id, emVoo[p].data, r)
  /\ emVoo' = [emVoo EXCEPT ![p] = Livre]
  /\ UNCHANGED <<varsPedidos, tokens, agora, varsArquivos>>

\* The request in slot p goes on to its next await.
Segue(p, req) ==
  /\ emVoo' = [emVoo EXCEPT ![p] = req]
  /\ UNCHANGED <<varsPedidos, usuarios, tokens, agora, resp, varsArquivos>>

\* The request fails at its first read, before it ever waits.
Recusa(op, id, data, msg) ==
  /\ resp' = Resposta(op, id, data, FalhaU(usuarios, msg))
  /\ UNCHANGED <<varsPedidos, usuarios, tokens, agora, emVoo, varsArquivos>>

RegisterFindByEmail(p) ==
  /\ SlotLivre(p)
  /\ \E data \in RegisterInputsConc :
       IF UserRepository_findByEmail(usuarios, data.email) # <<>>
         THEN Recusa("register", 0, data, "Email já está em uso")
         ELSE Segue(p, [op |-> "register", pc |-> "create", id |-> 0, data |-> data])

RegisterCreate(p) ==
  /\ emVoo[p].pc = "create"
  /\ \E r \in {register_create(usuarios, emVoo[p].data, agora)} :
       /\ r.ok => Len(usuarios) < MaxUsuarios
       /\ Termina(p, r)

UpdateGetUserById(p) ==
  /\ SlotLivre(p)
  /\ \E id \in IdsUsuarios, data \in UpdateUserInputsConc :
       IF ~getUserById(usuarios, id).ok
         THEN Recusa("updateUser", id, data, "Usuário não encontrado")
         ELSE Segue(p, [op |-> "updateUser", pc |-> "emailExists",
                        id |-> id, data |-> data])

UpdateEmailExists(p) ==
  /\ emVoo[p].pc = "emailExists"
  /\ IF "email" \in DOMAIN emVoo[p].data
        /\ UserRepository_emailExists(usuarios, emVoo[p].data.email, emVoo[p].id)
       THEN Termina(p, FalhaU(usuarios, "Email já está em uso"))
       ELSE Segue(p, [emVoo[p] EXCEPT !.pc = "update"])

UpdateUpdate(p) ==
  /\ emVoo[p].pc = "update"
  /\ Termina(p, updateUser_update(usuarios, emVoo[p].id, emVoo[p].data))

InitConc ==
  /\ pedidos = <<>>
  /\ proxPedidoId = 1
  /\ usuarios = <<>>
  /\ tokens = {}
  /\ agora = 0
  /\ criador = <<>>
  /\ emVoo = [p \in Slots |-> Livre]
  /\ SemArquivos
  /\ resp = RespInicial

NextConc ==
  \E p \in Slots :
    \/ RegisterFindByEmail(p)
    \/ RegisterCreate(p)
    \/ UpdateGetUserById(p)
    \/ UpdateEmailExists(p)
    \/ UpdateUpdate(p)

SpecConc == InitConc /\ [][NextConc]_vars

----------------------------------------------------------------------------
\* Claims checked under SpecConc

\* C9: in every reachable state, whatever the interleaving of register and
\* updateUser requests between their existence check and their write, no two
\* rows of usuarios have the same email.
C9_EmailUnico ==
  \A i, j \in DOMAIN usuarios : i # j => usuarios[i].email # usuarios[j].email

\* C9 witness: a request passed its existence check and another request wrote
\* the same email before it, so that its own write was refused by the store.
C9_Witness ==
  /\ ~resp.ok
  /\ \/ resp.op = "register"
        /\ resp.erro = "Unique constraint failed on the fields: (email)"
     \/ resp.op = "updateUser" /\ resp.erro = "Erro ao atualizar usuário"
  /\ \E i \in DOMAIN usuarios : usuarios[i].email = resp.entrada.email

----------------------------------------------------------------------------
\* Validators of the user routes.  A schema gives <<>> for a body it rejects
\* and <<data>> for the parsed data.

\* Passwords with 8 or more characters, a lower-case letter, an upper-case
\* letter and a digit.
SenhasFortes == {"Senha123", "Outra456"}

\* role: optional, default 'user'
registerUserSchema(body) ==
  IF body.senha \notin SenhasFortes
       \/ ("role" \in DOMAIN body /\ body.role \notin {"user", "admin"})
    THEN <<>>
    ELSE <<[email |-> body.email, senha |-> body.senha,
            role |-> IF "role" \in DOMAIN body THEN body.role ELSE "user"]>>

\* senha: any string of one character or more
loginUserSchema(body) == <<body>>

\* updateUserSchema with no role field: zod drops the keys a schema does not
\* name
updateUserSchema_semRole(body) ==
  IF "senha" \in DOMAIN body /\ body.senha \notin SenhasFortes
    THEN <<>>
    ELSE <<[f \in DOMAIN body \ {"role"} |-> body[f]]>>

updateUserSchema(body) ==
  IF ("senha" \in DOMAIN body /\ body.senha \notin SenhasFortes)
       \/ ("role" \in DOMAIN body /\ body.role \notin {"user", "admin"})
    THEN <<>>
    ELSE <<body>>

changePasswordSchema(body) ==
  IF body.novaSenha \notin SenhasFortes \/ body.novaSenha # body.confirmarSenha
    THEN <<>>
    ELSE <<body>>

----------------------------------------------------------------------------
\* UserController.  c.get('user') is user: <<>> or <<payload>>.

CapturadoU(r) == Http(500, "false", r.erro, <<>>, r.us)

UserController_register(us, body, t) ==
  LET r == register(us, registerUserSchema(body)[1], t)
  IN IF r.ok THEN Http(201, "true", "", r.dados, r.us) ELSE CapturadoU(r)

UserController_login(us, body, t) ==
  LET r == login(us, loginUserSchema(body)[1], t)
  IN IF r.ok THEN Http(200, "true", "", r.dados, r.us) ELSE CapturadoU(r)

UserController_getProfile(us, user) ==
  IF UserId(user) = 0
    THEN Http(401, "", "Usuário não autenticado", <<>>, us)
    ELSE LET r == getUserById(us, UserId(user))
         IN IF r.ok THEN Http(200, "true", "", r.dados, r.us) ELSE CapturadoU(r)

UserController_getById(us, id) ==
  LET r == getUserById(us, id)
  IN IF r.ok THEN Http(200, "true", "", r.dados, r.us) ELSE CapturadoU(r)

\* query.search and query.ativo are read and not used
UserController_list(us, page, limit) ==
  LET r == listUsers(us, page, limit)
  IN Http(200, "true", "", r.dados, r.us)

UserController_update_semDono(us, user, id, body) ==
  LET r == updateUser(us, id, updateUserSchema(body)[1])
  IN IF r.ok THEN Http(200, "true", "", r.dados, r.us) ELSE CapturadoU(r)

UserController_update(us, user, id, body) ==
  IF Role(user) # "ADMIN" /\ UserId(user) # id
    THEN Http(403, "", "Acesso negado", <<>>, us)
    ELSE LET r == updateUser(us, id, updateUserSchema(body)[1])
         IN IF r.ok THEN Http(200, "true", "", r.dados, r.us) ELSE CapturadoU(r)

UserController_changePassword(us, user, id, body) ==
  IF Role(user) # "ADMIN" /\ UserId(user) # id
    THEN Http(403, "", "Acesso negado", <<>>, us)
    ELSE LET r == changePassword(us, id, changePasswordSchema(body)[1])
         IN IF r.ok THEN Http(200, "true", "", <<>>, r.us) ELSE CapturadoU(r)

UserController_deactivate(us, user, id) ==
  IF UserId(user) = id
    THEN Http(400, "", "Não é possível desativar sua própria conta", <<>>, us)
    ELSE LET r == deactivateUser(us, id)
         IN IF r.ok THEN Http(200, "true", "", <<>>, r.us) ELSE CapturadoU(r)

UserController_activate(us, id) ==
  LET r == updateUser(us, id, [ativo |-> TRUE])
  IN IF r.ok THEN Http(200, "true", "", r.dados, r.us) ELSE CapturadoU(r)

----------------------------------------------------------------------------
\* createUserRoutes

RotasPublicas == {"POST /users/register", "POST /users/login"}

RotasProfile ==
  {"GET /users/profile", "PUT /users/profile", "PATCH /users/profile/password"}

RotasAdmin ==
  {"GET /users/admin", "GET /users/admin/:id", "PUT /users/admin/:id",
   "PATCH /users/admin/:id/password", "PATCH /users/admin/:id/deactivate",
   "PATCH /users/admin/:id/activate"}

\* The routes register authMiddleware itself, not the handler authMiddleware()
\* returns.  Called as a handler it reads no header, sets no user, never calls
\* next and returns a function where a Response is expected: the chain ends
\* there and the request fails with a server error.
authMiddlewareSemChamar ==
  Rejeita(500, "handler did not return a Response")

\* The middleware in front of the route's own handlers.
userRoutes_middleware(rota) ==
  IF rota \in RotasPublicas
    THEN Passa(<<>>)
    ELSE IF rota \in RotasProfile
      THEN authMiddlewareSemChamar
      ELSE LET a == authMiddlewareSemChamar
           IN IF ~a.passa THEN a ELSE roleMiddleware({"ADMIN"}, a.user)

Invalido(us) ==
  [alcancou |-> FALSE, r |-> Http(400, "false", "ZodError", <<>>, us)]

Controlador(valido, r, us) ==
  IF valido THEN [alcancou |-> TRUE, r |-> r] ELSE Invalido(us)

\* c.get('user')?.id: the payload has userId, email and role, and no id
NaoAutenticado(us) ==
  [alcancou |-> FALSE, r |-> Http(401, "", "Usuário não autenticado", <<>>, us)]

\* The route's validators and its handler.
userRoutes(rota, us, user, id, body, t) ==
  CASE rota = "POST /users/register" ->
         Controlador(registerUserSchema(body) # <<>>,
                     UserController_register(us, body, t), us)
    [] rota = "POST /users/login" ->
         Controlador(loginUserSchema(body) # <<>>,
                     UserController_login(us, body, t), us)
    [] rota = "GET /users/profile" ->
         Controlador(TRUE, UserController_getProfile(us, user), us)
    [] rota = "PUT /users/profile" ->
         IF updateUserSchema(body) = <<>> THEN Invalido(us) ELSE NaoAutenticado(us)
    [] rota = "PATCH /users/profile/password" ->
         IF changePasswordSchema(body) = <<>> THEN Invalido(us) ELSE NaoAutenticado(us)
    [] rota = "GET /users/admin" ->
         Controlador(TRUE, UserController_list(us, 1, 10), us)
    [] rota = "GET /users/admin/:id" ->
         Controlador(TRUE, UserController_getById(us, id), us)
    [] rota = "PUT /users/admin/:id" ->
         Controlador(updateUserSchema(body) # <<>>,
                     UserController_update(us, user, id, body), us)
    [] rota = "PATCH /users/admin/:id/password" ->
         Controlador(changePasswordSchema(body) # <<>>,
                     UserController_changePassword(us, user, id, body), us)
    [] rota = "PATCH /users/admin/:id/deactivate" ->
         Controlador(TRUE, UserController_deactivate(us, user, id), us)
    [] rota = "PATCH /users/admin/:id/activate" ->
         Controlador(TRUE, UserController_activate(us, id), us)

----------------------------------------------------------------------------
\* SpecHttpUsuarios: requests to the user routes, from an empty table, while
\* the clock advances.

\* Tokens live ExpiresIn: the clock runs until the first ones have expired.
MaxAgora == 1

RegisterBodies ==
  [email : Emails, senha : {"Senha123"}, role : Roles]
    \cup {[email |-> "a@x.com", senha |-> "Senha123"],
          [email |-> "b@x.com", senha |-> "curta", role |-> "user"]}

LoginBodies == [email : Emails, senha : {"Senha123", "curta"}]

UpdateUserBodies == UpdateUserInputs \cup {[senha |-> "curta"]}

ChangePasswordBodies ==
  [senhaAtual : {"Senha123"}, novaSenha : {"Outra456"},
   confirmarSenha : {"Outra456", "Senha123"}]

RespondeU(h, rota, id, body, a, x) ==
  /\ x.r.status = 201 => Len(usuarios) < MaxUsuarios
  /\ usuarios' = x.r.ps
  /\ tokens' = IF rota \in RotasPublicas /\ x.r.status \in {200, 201}
                 THEN tokens \cup {x.r.dados.token}
                 ELSE tokens
  /\ resp' = [op |-> rota, id |-> id, entrada |-> body, ok |-> x.r.status < 400,
              erro |-> x.r.erro, dados |-> x.r.dados, hdr |-> h, status |-> x.r.status,
              success |-> x.r.success, alcancou |-> x.alcancou, user |-> a.user]
  /\ UNCHANGED <<varsPedidos, agora, emVoo, varsArquivos>>

\* One request: the middleware first; the body is read by the route's
\* handlers, which run only when the middleware let the request through.
HttpUsuario(h, rota, id, bodies) ==
  \E a \in {userRoutes_middleware(rota)} :
    IF a.passa
      THEN \E body \in bodies :
             \E x \in {userRoutes(rota, usuarios, a.user, id, body, agora)} :
               RespondeU(h, rota, id, body, a, x)
      ELSE RespondeU(h, rota, id, <<>>, a,
                     [alcancou |-> FALSE,
                      r |-> Http(a.status, "", a.erro, <<>>, usuarios)])

PostRegister == HttpUsuario(<<>>, "POST /users/register", 0, RegisterBodies)

PostLogin == HttpUsuario(<<>>, "POST /users/login", 0, LoginBodies)

GetProfile ==
  \E h \in Headers(tokens) : HttpUsuario(h, "GET /users/profile", 0, {<<>>})

PutProfile ==
  \E h \in Headers(tokens) : HttpUsuario(h, "PUT /users/profile", 0, UpdateUserBodies)

PatchProfilePassword ==
  \E h \in Headers(tokens) :
    HttpUsuario(h, "PATCH /users/profile/password", 0, ChangePasswordBodies)

GetAdmin ==
  \E h \in Headers(tokens) : HttpUsuario(h, "GET /users/admin", 0, {<<>>})

GetAdminId ==
  \E h \in Headers(tokens), id \in IdsUsuarios :
    HttpUsuario(h, "GET /users/admin/:id", id, {<<>>})

PutAdminId ==
  \E h \in Headers(tokens), id \in IdsUsuarios :
    HttpUsuario(h, "PUT /users/admin/:id", id, UpdateUserBodies)

PatchAdminPassword ==
  \E h \in Headers(tokens), id \in IdsUsuarios :
    HttpUsuario(h, "PATCH /users/admin/:id/password", id, ChangePasswordBodies)

PatchAdminDeactivate ==
  \E h \in Headers(tokens), id \in IdsUsuarios :
    HttpUsuario(h, "PATCH /users/admin/:id/deactivate", id, {<<>>})

PatchAdminActivate ==
  \E h \in Headers(tokens), id \in IdsUsuarios :
    HttpUsuario(h, "PATCH /users/admin/:id/activate", id, {<<>>})

Tick ==
  /\ agora < MaxAgora
  /\ agora' = agora + 1
  /\ UNCHANGED <<varsPedidos, usuarios, tokens, emVoo, resp, varsArquivos>>

NextHttpUsuarios ==
  \/ PostRegister
  \/ PostLogin
  \/ GetProfile
  \/ PutProfile
  \/ PatchProfilePassword
  \/ GetAdmin
  \/ GetAdminId
  \/ PutAdminId
  \/ PatchAdminPassword
  \/ PatchAdminDeactivate
  \/ PatchAdminActivate
  \/ Tick

SpecHttpUsuarios == Init /\ [][NextHttpUsuarios]_vars

----------------------------------------------------------------------------
\* Claims checked under SpecHttpUsuarios

\* C5: on the /users/admin routes a request with a valid token of role admin
\* gets past the role gate (to the route's validators and controller) and a
\* request with a valid token of role user is rejected with 403 and does not
\* reach the controller.
C5_PortaoAdmin ==
  [][(resp'.op \in RotasAdmin /\ resp' # resp /\ TokenValido(resp'.hdr)) =>
       IF resp'.hdr[2].role = "admin"
         THEN resp'.alcancou \/ resp'.status = 400
         ELSE resp'.status = 403 /\ ~resp'.alcancou]_vars

----------------------------------------------------------------------------
\* SpecUserController: the methods of UserController, called one after
\* another with the identity c.get('user') that authMiddleware() sets from a
\* token the server issued (or with none), and requests to a route behind
\* authMiddleware().  Bodies are those the routes' validators let through.

\* One registration that leaves the role out and one that asks for admin
RegisterBodiesCtrl ==
  {[email |-> "a@x.com", senha |-> "Senha123"],
   [email |-> "b@x.com", senha |-> "Senha123", role |-> "admin"]}

UpdateUserBodiesCtrl ==
  {[role |-> "admin"]} \cup {[ativo |-> b] : b \in BOOLEAN}

ChangePasswordBodiesCtrl ==
  [senhaAtual : Senhas, novaSenha : {"Outra456"}, confirmarSenha : {"Outra456"}]

\* c.get('user') after authMiddleware(): the claims of an issued token
Chamadores ==
  {<<>>} \cup {<<[userId |-> k.userId, email |-> k.email, role |-> k.role]>> :
                 k \in {k \in tokens : verifyToken(k, agora) # <<>>}}

RespondeCtrl(op, user, id, body, r) ==
  /\ r.status = 201 => Len(usuarios) < MaxUsuarios
  /\ usuarios' = r.ps
  /\ tokens' = IF op \in {"register", "login"} /\ r.status \in {200, 201}
                 THEN tokens \cup {r.dados.token}
                 ELSE tokens
  /\ resp' = [op |-> op, id |-> id, entrada |-> body, ok |-> r.status < 400,
              erro |-> r.erro, dados |-> r.dados, hdr |-> <<>>, status |-> r.status,
              success |-> r.success, alcancou |-> TRUE, user |-> user]
  /\ UNCHANGED <<varsPedidos, agora, emVoo, varsArquivos>>

CtrlRegister ==
  \E body \in RegisterBodiesCtrl :
    RespondeCtrl("register", <<>>, 0, body,
                 UserController_register(usuarios, body, agora))

CtrlLogin ==
  \E body \in LoginInputs :
    RespondeCtrl("login", <<>>, 0, body, UserController_login(usuarios, body, agora))

CtrlGetProfile ==
  \E user \in Chamadores :
    RespondeCtrl("getProfile", user, 0, <<>>,
                 UserController_getProfile(usuarios, user))

\* getById, list and activate do not read c.get('user')
CtrlGetById ==
  \E id \in IdsUsuarios :
    RespondeCtrl("getById", <<>>, id, <<>>, UserController_getById(usuarios, id))

CtrlList ==
  RespondeCtrl("list", <<>>, 0, <<>>, UserController_list(usuarios, 1, 10))

CtrlUpdate ==
  \E user \in Chamadores, id \in IdsUsuarios, body \in UpdateUserBodiesCtrl :
    RespondeCtrl("update", user, id, body,
                 UserController_update(usuarios, user, id, body))

CtrlChangePassword ==
  \E user \in Chamadores, id \in IdsUsuarios, body \in ChangePasswordBodiesCtrl :
    RespondeCtrl("changePassword", user, id, body,
                 UserController_changePassword(usuarios, user, id, body))

CtrlDeactivate ==
  \E user \in Chamadores, id \in IdsUsuarios :
    RespondeCtrl("deactivate", user, id, <<>>,
                 UserController_deactivate(usuarios, user, id))

CtrlActivate ==
  \E id \in IdsUsuarios :
    RespondeCtrl("activate", <<>>, id, <<>>, UserController_activate(usuarios, id))

NextUserController ==
  \/ CtrlRegister
  \/ CtrlLogin
  \/ CtrlGetProfile
  \/ CtrlGetById
  \/ CtrlList
  \/ CtrlUpdate
  \/ CtrlChangePassword
  \/ CtrlDeactivate
  \/ CtrlActivate
  \/ GetPedidosStats

SpecUserController == Init /\ [][NextUserController]_vars

----------------------------------------------------------------------------
\* Claims checked under SpecUserController

\* The rows of usuarios with the email of the request
ComEmail(email) == {i \in DOMAIN usuarios : usuarios[i].email = email}

\* C11: a login whose email is unknown, whose account is inactive or whose
\* password does not match the stored hash gets one and the same response
\* (status, success flag and message "Credenciais inválidas", no data), no
\* token is issued and nothing changes; any other login succeeds with a token.
C11_LoginErroUnico ==
  [][resp'.op = "login" =>
       LET body == resp'.entrada
           falha == \/ ComEmail(body.email) = {}
                    \/ \E i \in ComEmail(body.email) :
                         \/ ~usuarios[i].ativo
                         \/ usuarios[i].senha # hashPassword(body.senha)
       IN IF falha
            THEN /\ resp'.status = 500
                 /\ resp'.success = "false"
                 /\ resp'.erro = "Credenciais inválidas"
                 /\ resp'.dados = <<>>
                 /\ tokens' = tokens
                 /\ usuarios' = usuarios
            ELSE /\ resp'.status = 200
                 /\ resp'.dados.token \in tokens']_vars

\* C11 witness: the login of a deactivated account with its correct password
\* was refused.
C11_Witness ==
  /\ resp.op = "login"
  /\ ~resp.ok
  /\ \E i \in ComEmail(resp.entrada.email) :
       /\ ~usuarios[i].ativo
       /\ usuarios[i].senha = hashPassword(resp.entrada.senha)

Inativo(id) == id \in DOMAIN usuarios /\ ~usuarios[id].ativo

\* login, getUserById and listUsers treat a deactivated user as absent.
InativoAusenteNosServicos ==
  /\ resp.op = "login" /\ (\E i \in ComEmail(resp.entrada.email) : Inativo(i))
       => ~resp.ok /\ resp.dados = <<>>
  /\ resp.op = "getById" /\ Inativo(resp.id)
       => ~resp.ok /\ resp.erro = "Usuário não encontrado"
  /\ resp.op = "getProfile" /\ Inativo(UserId(resp.user))
       => ~resp.ok /\ resp.erro = "Usuário não encontrado"
  /\ resp.op = "list"
       => \A k \in DOMAIN resp.dados.usuarios : ~Inativo(resp.dados.usuarios[k].id)

\* C12: once a user's active flag is false, login with the correct password
\* fails, getUserById fails with not-found, listUsers leaves the user out, and a
\* request whose bearer token was issued to that user is rejected with 401 by
\* authMiddleware() and does not reach the controller.
C12_InativoTratadoComoAusente ==
  /\ InativoAusenteNosServicos
  /\ resp.op = "GET /stats" /\ Len(resp.hdr) = 2 /\ resp.hdr[1] = "Bearer "
       /\ resp.hdr[2] \in tokens /\ Inativo(resp.hdr[2].userId)
       => resp.status = 401 /\ ~resp.alcancou

\* The caller of the last request is neither user X nor an admin.
OutroChamador(user, X) == UserId(user) # X /\ Role(user) # "admin"

C14_NaoDesativaASiMesmo ==
  [][(/\ resp'.op \in {"deactivate", "update", "changePassword"}
      /\ resp'.user # <<>>
      /\ resp'.id = UserId(resp'.user)
      /\ resp'.id \in DOMAIN usuarios
      /\ usuarios[resp'.id].ativo)
     => /\ usuarios'[resp'.id].ativo
        /\ resp'.op = "deactivate" => resp'.status = 400 /\ usuarios' = usuarios]_vars

----------------------------------------------------------------------------
\* More claims checked under SpecHttpUsuarios

\* C15: PUT /users/profile and PATCH /users/profile/password sent with a valid
\* bearer token of an active user reach the controller with the caller's
\* identity; a body the validator accepts (for the password change, one with
\* the correct current password) is then answered 200, and only the caller's
\* own row changes.
C15_PerfilProprio ==
  [][(/\ resp'.op \in {"PUT /users/profile", "PATCH /users/profile/password"}
      /\ resp' # resp
      /\ TokenValido(resp'.hdr)
      /\ resp'.hdr[2].userId \in DOMAIN usuarios
      /\ usuarios[resp'.hdr[2].userId].ativo)
     => /\ resp'.alcancou \/ resp'.status = 400
        /\ resp'.status \in {200, 400}
             \/ (/\ resp'.op = "PATCH /users/profile/password"
                 /\ resp'.erro = "Senha atual incorreta")
        /\ \A i \in DOMAIN usuarios :
             i # resp'.hdr[2].userId => usuarios'[i] = usuarios[i]]_vars

----------------------------------------------------------------------------
\* More claims checked under SpecUsuarios

\* C16: changePassword(id, {senhaAtual, novaSenha}) fails and changes nothing
\* when user id is missing or inactive or senhaAtual does not match the stored
\* hash; otherwise it succeeds, only the stored hash of user id changes, a login
\* with novaSenha then succeeds and a login with senhaAtual, when it differs
\* from novaSenha, then fails.
C16_ChangePassword ==
  [][resp'.op = "changePassword" =>
       LET id == resp'.id
           d == resp'.entrada
           falha == \/ id \notin DOMAIN usuarios
                    \/ ~usuarios[id].ativo
                    \/ usuarios[id].senha # hashPassword(d.senhaAtual)
       IN IF falha
            THEN ~resp'.ok /\ usuarios' = usuarios
            ELSE /\ resp'.ok
                 /\ usuarios' = [usuarios EXCEPT ![id].senha = usuarios'[id].senha]
                 /\ login(usuarios', [email |-> usuarios[id].email,
                                      senha |-> d.novaSenha], agora).ok
                 /\ d.senhaAtual # d.novaSenha
                      => ~login(usuarios', [email |-> usuarios[id].email,
                                            senha |-> d.senhaAtual], agora).ok]_vars

\* C16 witness: a password was changed to a different one.
C16_Witness ==
  /\ resp.op = "changePassword"
  /\ resp.ok
  /\ resp.entrada.senhaAtual # resp.entrada.novaSenha
  /\ usuarios[resp.id].senha = hashPassword(resp.entrada.novaSenha)

\* A returned user view without the field that holds the password hash
SemCampoSenha(u) == "senha" \notin DOMAIN u

\* C17: no value returned by register, login, getUserById, listUsers or
\* updateUser carries the stored password hash: the user views they return,
\* and the token beside them, have no field senha.
C17_SenhaNuncaDevolvida ==
  /\ resp.op \in {"register", "login"} /\ resp.ok
       => SemCampoSenha(resp.dados.user) /\ SemCampoSenha(resp.dados.token)
  /\ resp.op \in {"getUserById", "updateUser"} /\ resp.ok
       => SemCampoSenha(resp.dados)
  /\ resp.op = "listUsers"
       => \A k \in DOMAIN resp.dados.usuarios : SemCampoSenha(resp.dados.usuarios[k])

\* C17 witness: each of the five methods has returned a view of a stored user;
\* here updateUser, after it stored a new password hash.
C17_Witness ==
  /\ resp.op = "updateUser"
  /\ resp.ok
  /\ "senha" \in DOMAIN resp.entrada
  /\ usuarios[resp.id].senha = hashPassword(resp.entrada.senha)
  /\ resp.dados.id = resp.id

----------------------------------------------------------------------------
\* FileService.  The stores are st = [arquivos, proxArquivoId, objetos,
\* proxChave]; a result is [ok, erro, st, dados].

\* Default of MAX_FILE_SIZE, in bytes
MaxFileSize == 10485760

\* Default of ALLOWED_FILE_TYPES
AllowedTypes == {"image/jpeg", "image/png", "image/gif", "application/pdf"}

Options == [maxSize |-> MaxFileSize, allowedTypes |-> AllowedTypes]

FalhaA(st, msg) == [ok |-> FALSE, erro |-> msg, st |-> st, dados |-> <<>>]
SucessoA(st, dados) == [ok |-> TRUE, erro |-> "", st |-> st, dados |-> dados]

\* validateFile without its test for an empty file
validateFile_aceitaVazio(file, options) ==
  IF file.size > options.maxSize
    THEN "Arquivo muito grande"
    ELSE IF file.type \notin options.allowedTypes
      THEN "Tipo de arquivo não permitido"
      ELSE ""

\* The message of the Error validateFile throws, "" when it throws none.  The
\* messages end with the formatted limit and with the list of accepted types,
\* left out here.
validateFile(file, options) ==
  IF file.size > options.maxSize
    THEN "Arquivo muito grande"
    ELSE IF file.type \notin options.allowedTypes
      THEN "Tipo de arquivo não permitido"
      ELSE IF file.size = 0
        THEN "Arquivo está vazio"
        ELSE ""

\* uploads/${userId}/${timestamp}-${random}.${extension}: n stands for the
\* timestamp and the random suffix, fresh at each call
generateFileKey(userId, n) == <<"uploads", userId, n>>

\* r2Bucket.put: the object under key is written or replaced
R2_put(objs, key, file, userId) ==
  {o \in objs : o.key # key}
    \cup {[key |-> key, size |-> file.size, type |-> file.type, uploadedBy |-> userId]}

\* r2Bucket.delete: removing a key that holds no object is no error
R2_delete(objs, key) == {o \in objs : o.key # key}

R2_get(objs, key) ==
  IF \E o \in objs : o.key = key
    THEN <<CHOOSE o \in objs : o.key = key>>
    ELSE <<>>

\* db.arquivo.create with data {nome, tamanho, tipo, url}: the row has the
\* columns of table arquivos and no others
Arquivo_create(arqs, nid, key, file) ==
  arqs \cup {[id |-> nid, nome |-> key, tamanho |-> file.size, tipo |-> file.type,
              url |-> <<"/files/", key>>]}

Arquivo_findUnique(arqs, fileId) ==
  IF \E a \in arqs : a.id = fileId
    THEN <<CHOOSE a \in arqs : a.id = fileId>>
    ELSE <<>>

\* A field the row may not have: <<>> is undefined.
Campo(row, f) == IF f \in DOMAIN row THEN <<row[f]>> ELSE <<>>

\* The view the service returns: id, nomeOriginal, nomeArquivo, tamanho, tipo,
\* url, usuarioId (criadoEm left out), each read from the row
UploadedFile(row) ==
  [id |-> row.id, nomeOriginal |-> Campo(row, "nomeOriginal"),
   nomeArquivo |-> Campo(row, "nomeArquivo"), tamanho |-> row.tamanho,
   tipo |-> row.tipo, url |-> row.url, usuarioId |-> Campo(row, "usuarioId")]

\* uploadFile after validateFile and generateFileKey: the put is done
uploadFile_put(st, file, userId, key) ==
  [st EXCEPT !.objetos = R2_put(@, key, file, userId)]

\* uploadFile after its put: the row is created
uploadFile_create(st, file, key) ==
  [st EXCEPT !.arquivos = Arquivo_create(@, st.proxArquivoId, key, file),
             !.proxArquivoId = @ + 1]

\* uploadFile's return value: the view of the row it created
uploadFile_return(st, id) == UploadedFile(CHOOSE a \in st.arquivos : a.id = id)

\* putOk: whether the object store carries out the put or answers an error
uploadFile(st, file, userId, options, putOk) ==
  LET v == validateFile(file, options)
      key == generateFileKey(userId, st.proxChave)
      st1 == [st EXCEPT !.proxChave = @ + 1]
      st2 == uploadFile_put(st1, file, userId, key)
      st3 == uploadFile_create(st2, file, key)
  IN IF v # ""
       THEN FalhaA(st, "Erro no upload: " \o v)
       ELSE IF ~putOk
         THEN FalhaA(st1, "Erro no upload: R2 put failed")
         ELSE SucessoA(st3, uploadFile_return(st3, st.proxArquivoId))

getFile(st, fileKey) == SucessoA(st, R2_get(st.objetos, fileKey))

\* deleteFile up to its permission test: the message of the Error it throws,
\* "" when it goes on to the two removals
deleteFile_findUnique(st, fileId, userId, userRole) ==
  LET arquivo == Arquivo_findUnique(st.arquivos, fileId)
  IN IF arquivo = <<>>
       THEN "Arquivo não encontrado"
       ELSE IF userRole # "ADMIN" /\ Campo(arquivo[1], "usuarioId") # <<userId>>
         THEN "Sem permissão para deletar este arquivo"
         ELSE ""

\* r2Bucket.delete(arquivo.nomeArquivo): the row has the key in nome and no
\* nomeArquivo, so the bucket is asked to delete no key of its own
deleteFile_r2(st, arquivo) ==
  [st EXCEPT !.objetos = IF Campo(arquivo, "nomeArquivo") = <<>>
                           THEN @
                           ELSE R2_delete(@, arquivo.nomeArquivo)]

\* db.arquivo.delete({ where: { id: fileId } })
deleteFile_db(st, fileId) ==
  [st EXCEPT !.arquivos = {a \in @ : a.id # fileId}]

deleteFile(st, fileId, userId, userRole) ==
  LET v == deleteFile_findUnique(st, fileId, userId, userRole)
      arquivo == Arquivo_findUnique(st.arquivos, fileId)
  IN IF v # ""
       THEN FalhaA(st, "Erro ao deletar arquivo: " \o v)
       ELSE SucessoA(deleteFile_db(deleteFile_r2(st, arquivo[1]), fileId), <<>>)

getFileInfo(st, fileId, userId, userRole) ==
  LET arquivo == Arquivo_findUnique(st.arquivos, fileId)
  IN IF arquivo = <<>>
       THEN FalhaA(st, "Erro ao buscar informações do arquivo: Arquivo não encontrado")
       ELSE IF userRole # "ADMIN" /\ Campo(arquivo[1], "usuarioId") # <<userId>>
         THEN FalhaA(st, "Erro ao buscar informações do arquivo: Sem permissão para acessar este arquivo")
         ELSE SucessoA(st, UploadedFile(arquivo[1]))

\* where: { usuarioId } names a variable the method does not have (its
\* parameter is userId): the ReferenceError is caught and thrown again
listUserFiles(st, userId, page, limit) ==
  FalhaA(st, "Erro ao listar arquivos: usuarioId is not defined")

----------------------------------------------------------------------------
\* SpecArquivos: the methods of FileService, one call after another.
\* uploadMultipleFiles (SpecLote) starts one uploadFile per file and waits with
\* Promise.all; each of them runs validateFile and generateFileKey at once and
\* then waits for its put and for its create, so the uploads of a call are in
\* flight together (lote).

\* File keys ever generated.
MaxArquivos == 2

\* Files in one uploadMultipleFiles call.
MaxLote == 2

Files ==
  {[size |-> 1, type |-> "image/png"],
   [size |-> MaxFileSize, type |-> "application/pdf"],
   [size |-> 0, type |-> "image/png"],
   [size |-> MaxFileSize + 1, type |-> "image/png"],
   [size |-> 1, type |-> "text/plain"]}

\* The files of uploadMultipleFiles calls: one that passes validateFile and
\* two it refuses with different messages
FilesLote ==
  {[size |-> 1, type |-> "image/png"],
   [size |-> 0, type |-> "image/png"],
   [size |-> 1, type |-> "text/plain"]}

Lotes == UNION {[1..n -> FilesLote] : n \in 1..MaxLote}

UserIdsArquivos == {1, 2}

\* c.get('user')?.role is 'user' or 'admin'; 'ADMIN' is what the service
\* compares userRole with
RolesArquivos == {"user", "admin", "ADMIN"}

IdsArquivos == 1..MaxArquivos

Store == [arquivos |-> arquivos, proxArquivoId |-> proxArquivoId,
          objetos |-> objetos, proxChave |-> proxChave]

Guarda(st) ==
  /\ arquivos' = st.arquivos
  /\ proxArquivoId' = st.proxArquivoId
  /\ objetos' = st.objetos
  /\ proxChave' = st.proxChave

\* A call of a FileService method that leaves the stores r.st behind.
ChamadaA(op, id, entrada, r) ==
  /\ Guarda(r.st)
  /\ resp' = Resposta(op, id, entrada, r)
  /\ UNCHANGED <<varsPedidos, varsUsuarios, lote>>

SvcUploadFile ==
  \E file \in Files, userId \in UserIdsArquivos, putOk \in BOOLEAN :
    \E r \in {uploadFile(Store, file, userId, Options, putOk)} :
      /\ r.st.proxChave <= MaxArquivos + 1
      /\ ChamadaA("uploadFile", 0, [file |-> file, userId |-> userId], r)

SvcDeleteFile ==
  \E id \in IdsArquivos, userId \in UserIdsArquivos, userRole \in RolesArquivos :
    ChamadaA("deleteFile", id, [userId |-> userId, userRole |-> userRole],
             deleteFile(Store, id, userId, userRole))

SvcGetFileInfo ==
  \E id \in IdsArquivos, userId \in UserIdsArquivos, userRole \in RolesArquivos :
    ChamadaA("getFileInfo", id, [userId |-> userId, userRole |-> userRole],
             getFileInfo(Store, id, userId, userRole))

SvcListUserFiles ==
  \E userId \in UserIdsArquivos :
    ChamadaA("listUserFiles", 0, [userId |-> userId],
             listUserFiles(Store, userId, 1, 10))

\* uploadMultipleFiles

\* Valid files among the first k of files
Validos(files, k) ==
  Cardinality({j \in 1..k : validateFile(files[j], Options) = ""})

\* files.map(file => this.uploadFile(...)): every uploadFile runs up to its
\* first await; a file validateFile refuses is a rejected promise already
uploadMultipleFiles_map(files, userId, n) ==
  [k \in DOMAIN files |->
     LET v == validateFile(files[k], Options)
     IN IF v # ""
          THEN [file |-> files[k], pc |-> "falhou", key |-> <<>>, dados |-> <<>>,
                erro |-> "Erro no upload: " \o v]
          ELSE [file |-> files[k], pc |-> "put",
                key |-> generateFileKey(userId, n + Validos(files, k) - 1),
                dados |-> <<>>, erro |-> ""]]

\* The rejection Promise.all settles with: the first in time
PrimeiraRejeicao(itens) ==
  IF \E k \in DOMAIN itens : itens[k].pc = "falhou"
    THEN itens[CHOOSE k \in DOMAIN itens :
                 /\ itens[k].pc = "falhou"
                 /\ \A j \in DOMAIN itens : itens[j].pc = "falhou" => k <= j].erro
    ELSE ""

UploadMultipleFilesMap ==
  /\ lote = <<>>
  /\ \E files \in Lotes, userId \in UserIdsArquivos :
       LET itens == uploadMultipleFiles_map(files, userId, proxChave)
       IN /\ proxChave + Validos(files, Len(files)) <= MaxArquivos + 1
          /\ proxChave' = proxChave + Validos(files, Len(files))
          /\ lote' = [userId |-> userId, retornou |-> FALSE, itens |-> itens,
                      erro |-> PrimeiraRejeicao(itens)]
  /\ UNCHANGED <<varsPedidos, varsUsuarios, arquivos, proxArquivoId, objetos, resp>>

Item(k) == lote.itens[k]

LotePut(k) ==
  /\ lote # <<>>
  /\ k \in DOMAIN lote.itens
  /\ Item(k).pc = "put"
  /\ Guarda(uploadFile_put(Store, Item(k).file, lote.userId, Item(k).key))
  /\ lote' = [lote EXCEPT !.itens[k].pc = "create"]
  /\ UNCHANGED <<varsPedidos, varsUsuarios, resp>>

\* the object store answers the put with an error
LotePutFalha(k) ==
  /\ lote # <<>>
  /\ k \in DOMAIN lote.itens
  /\ Item(k).pc = "put"
  /\ lote' = [lote EXCEPT !.itens[k].pc = "falhou",
                          !.itens[k].erro = "Erro no upload: R2 put failed",
                          !.erro = IF @ = "" THEN "Erro no upload: R2 put failed" ELSE @]
  /\ UNCHANGED <<varsPedidos, varsUsuarios, arquivos, proxArquivoId, objetos,
                 proxChave, resp>>

LoteCreate(k) ==
  /\ lote # <<>>
  /\ k \in DOMAIN lote.itens
  /\ Item(k).pc = "create"
  /\ Guarda(uploadFile_create(Store, Item(k).file, Item(k).key))
  /\ lote' = [lote EXCEPT
       !.itens[k].pc = "ok",
       !.itens[k].dados =
         uploadFile_return(uploadFile_create(Store, Item(k).file, Item(k).key),
                           proxArquivoId)]
  /\ UNCHANGED <<varsPedidos, varsUsuarios, resp>>

\* uploadMultipleFiles that answers with what landed instead of rejecting
uploadMultipleFiles_retorna_parcial(st, l) ==
  SucessoA(st, [k \in DOMAIN l.itens |-> l.itens[k].dados])

\* await Promise.all(uploadPromises): fulfilled when every upload is, rejected
\* as soon as one is
uploadMultipleFiles_retorna(st, l) ==
  IF l.erro # ""
    THEN FalhaA(st, "Erro no upload múltiplo: " \o l.erro)
    ELSE SucessoA(st, [k \in DOMAIN l.itens |-> l.itens[k].dados])

LoteRetorna ==
  /\ lote # <<>>
  /\ ~lote.retornou
  /\ lote.erro # "" \/ \A k \in DOMAIN lote.itens : Item(k).pc = "ok"
  /\ resp' = Resposta("uploadMultipleFiles", 0,
                      [files |-> [k \in DOMAIN lote.itens |-> Item(k).file],
                       userId |-> lote.userId],
                      uploadMultipleFiles_retorna(Store, lote))
  /\ lote' = [lote EXCEPT !.retornou = TRUE]
  /\ UNCHANGED <<varsPedidos, varsUsuarios, arquivos, proxArquivoId, objetos, proxChave>>

\* The invocation that served the call ends; what its uploads had not done by
\* then is not done.
LoteFim ==
  /\ lote # <<>>
  /\ lote.retornou
  /\ lote' = <<>>
  /\ UNCHANGED <<varsPedidos, varsUsuarios, arquivos, proxArquivoId, objetos,
                 proxChave, resp>>

NextArquivos ==
  \/ SvcUploadFile
  \/ SvcDeleteFile
  \/ SvcGetFileInfo
  \/ SvcListUserFiles

SpecArquivos == Init /\ [][NextArquivos]_vars

\* SpecLote: uploadMultipleFiles calls, one at a time, their uploads in flight
\* together.
NextLote ==
  \/ UploadMultipleFilesMap
  \/ \E k \in 1..MaxLote : LotePut(k)
  \/ \E k \in 1..MaxLote : LotePutFalha(k)
  \/ \E k \in 1..MaxLote : LoteCreate(k)
  \/ LoteRetorna
  \/ LoteFim

SpecLote == Init /\ [][NextLote]_vars

----------------------------------------------------------------------------
\* Claims about FileService (SpecArquivos, SpecLote)

Recusado(file) ==
  file.size > Options.maxSize \/ file.type \notin Options.allowedTypes \/ file.size = 0

\* C18: uploadFile with a file that is larger than maxSize, of a type outside
\* allowedTypes or of size 0 fails without a put to the object store and
\* without a new row in arquivos; so every row of arquivos has
\* 0 < tamanho <= maxSize and an allowed tipo.
C18_ValidaAntesDeGravar ==
  [][/\ (resp'.op = "uploadFile" /\ Recusado(resp'.entrada.file))
          => /\ ~resp'.ok
             /\ objetos' = objetos
             /\ arquivos' = arquivos
     /\ \A a \in arquivos' :
          /\ 0 < a.tamanho
          /\ a.tamanho <= Options.maxSize
          /\ a.tipo \in Options.allowedTypes]_vars

C18_Witness ==
  /\ resp.op = "uploadFile"
  /\ resp.entrada.file.size = 0
  /\ ~resp.ok
  /\ \E a \in arquivos : a.tamanho = MaxFileSize
  /\ \E o \in objetos : TRUE

\* The user whose upload created the row: generateFileKey puts the id in the
\* key, and the key is the row's nome.
Uploader(a) == a.nome[2]

\* The admin role is 'admin' in the users table and in the tokens, 'ADMIN' in
\* FileService: either spelling counts here.
PodeAcessar(a, entrada) ==
  Uploader(a) = entrada.userId \/ entrada.userRole \in {"admin", "ADMIN"}

\* C19: deleteFile and getFileInfo on a file uploaded by U succeed for U and
\* for a caller with the admin role; for any other caller they fail with a
\* permission error and leave the object and the row as they were.
C19_DonoOuAdmin ==
  [][\A a \in arquivos :
       (resp'.op \in {"deleteFile", "getFileInfo"} /\ resp'.id = a.id)
         => IF PodeAcessar(a, resp'.entrada)
              THEN resp'.ok
              ELSE /\ ~resp'.ok
                   /\ objetos' = objetos
                   /\ arquivos' = arquivos]_vars

\* The step at which uploadMultipleFiles returns
Retorna == lote # <<>> /\ lote' # <<>> /\ ~lote.retornou /\ lote'.retornou

\* The upload of item i landed: its object and its row are in the stores
Gravado(i, objs, arqs) ==
  /\ i.pc = "ok"
  /\ \E o \in objs : o.key = i.key
  /\ \E a \in arqs : a.id = i.dados.id /\ a.nome = i.key

\* C20: uploadMultipleFiles succeeds exactly when every upload of the call
\* succeeds; when it fails nothing is rolled back, the objects and rows of the
\* uploads that succeeded stay, and the caller gets one error message, that of
\* a failed upload, with no data.
C20_TudoOuErro ==
  [][/\ Retorna =>
          /\ resp'.op = "uploadMultipleFiles"
          /\ resp'.ok <=> \A k \in DOMAIN lote.itens : lote.itens[k].pc = "ok"
          /\ ~resp'.ok <=> \E k \in DOMAIN lote.itens : lote.itens[k].pc = "falhou"
          /\ ~resp'.ok =>
               /\ arquivos' = arquivos
               /\ objetos' = objetos
               /\ \A k \in DOMAIN lote.itens :
                    lote.itens[k].pc = "ok" => Gravado(lote.itens[k], objetos', arquivos')
               /\ resp'.dados = <<>>
               /\ \E k \in DOMAIN lote.itens :
                    /\ lote.itens[k].pc = "falhou"
                    /\ resp'.erro = "Erro no upload múltiplo: " \o lote.itens[k].erro
     /\ arquivos \subseteq arquivos'
     /\ objetos \subseteq objetos']_vars

C20_Witness ==
  /\ lote # <<>>
  /\ lote.retornou
  /\ resp.op = "uploadMultipleFiles"
  /\ ~resp.ok
  /\ resp.erro = "Erro no upload múltiplo: Erro no upload: R2 put failed"
  /\ \E k \in DOMAIN lote.itens : Gravado(lote.itens[k], objetos, arquivos)

\* C21: uploadMultipleFiles returns only when every upload it started is
\* over: once the call has returned, no put and no create of its uploads
\* takes place.
C21_RetornaDepoisDeTodos ==
  [][(lote # <<>> /\ lote.retornou)
       => (objetos' = objetos /\ arquivos' = arquivos)]_vars

----------------------------------------------------------------------------
\* SpecDeleteFile: FileService.deleteFile cut at its awaits, after uploads.
\* The call in flight is emVoo, <<>> when there is none; each of its two
\* removals is carried out or answered with an error by the store.

DeleteFileFindUnique ==
  /\ emVoo = <<>>
  /\ \E id \in IdsArquivos, userId \in UserIdsArquivos, userRole \in RolesArquivos :
       LET v == deleteFile_findUnique(Store, id, userId, userRole)
           data == [userId |-> userId, userRole |-> userRole]
       IN IF v # ""
            THEN /\ resp' = Resposta("deleteFile", id, data,
                                     FalhaA(Store, "Erro ao deletar arquivo: " \o v))
                 /\ UNCHANGED emVoo
            ELSE /\ emVoo' = [op |-> "deleteFile", pc |-> "r2", id |-> id, data |-> data,
                              arquivo |-> Arquivo_findUnique(arquivos, id)[1]]
                 /\ UNCHANGED resp
  /\ UNCHANGED <<varsPedidos, usuarios, tokens, agora, varsArquivos>>

\* The call in flight throws msg.
DeleteFileFalha(msg) ==
  /\ resp' = Resposta("deleteFile", emVoo.id, emVoo.data,
                      FalhaA(Store, "Erro ao deletar arquivo: " \o msg))
  /\ emVoo' = <<>>
  /\ UNCHANGED <<varsPedidos, usuarios, tokens, agora, varsArquivos>>

DeleteFileR2 ==
  /\ emVoo # <<>>
  /\ emVoo.pc = "r2"
  /\ Guarda(deleteFile_r2(Store, emVoo.arquivo))
  /\ emVoo' = [emVoo EXCEPT !.pc = "db"]
  /\ UNCHANGED <<varsPedidos, usuarios, tokens, agora, lote, resp>>

\* the bucket answers the delete with an error
DeleteFileR2Falha ==
  /\ emVoo # <<>>
  /\ emVoo.pc = "r2"
  /\ DeleteFileFalha("R2 delete failed")

DeleteFileDb ==
  /\ emVoo # <<>>
  /\ emVoo.pc = "db"
  /\ Guarda(deleteFile_db(Store, emVoo.id))
  /\ resp' = Resposta("deleteFile", emVoo.id, emVoo.data, SucessoA(Store, <<>>))
  /\ emVoo' = <<>>
  /\ UNCHANGED <<varsPedidos, usuarios, tokens, agora, lote>>

\* the database answers the delete with an error
DeleteFileDbFalha ==
  /\ emVoo # <<>>
  /\ emVoo.pc = "db"
  /\ DeleteFileFalha("db delete failed")

NextDeleteFile ==
  \/ SvcUploadFile
  \/ DeleteFileFindUnique
  \/ DeleteFileR2
  \/ DeleteFileR2Falha
  \/ DeleteFileDb
  \/ DeleteFileDbFalha

SpecDeleteFile == Init /\ [][NextDeleteFile]_vars

TemObjeto(objs, a) == \E o \in objs : o.key = a.nome

\* C22: deleteFile removes the object before the row; when the removal of
\* the row fails after that of the object, the row is still there, the object
\* is gone, nothing is put back and the caller gets an error.
C22_ObjetoAntesDoRegistro ==
  [][/\ \A a \in arquivos \ arquivos' : ~TemObjeto(objetos, a)
     /\ (emVoo # <<>> /\ emVoo.pc = "db" /\ emVoo' = <<>> /\ ~resp'.ok)
          => /\ emVoo.arquivo \in arquivos'
             /\ ~TemObjeto(objetos', emVoo.arquivo)
             /\ arquivos' = arquivos
             /\ objetos' = objetos]_vars

----------------------------------------------------------------------------
\* SpecPaginas: PedidoService.listPedidos and UserService.listUsers over
\* stores of 0..MaxTotal records, as createPedido and register leave them
\* (orders delivered or pending in turn, every third user deactivated).

\* Records in each store.
MaxTotal == 25

Pages == 1..4

Limits == {1, 2, 3, 10}

PedidosPag(n) ==
  [i \in 1..n |-> [cliente |-> <<"A", "n", "a">>, preco |-> 1,
                   status |-> IF i % 2 = 0 THEN "entregue" ELSE "pendente"]]

UsuariosPag(n) ==
  [i \in 1..n |-> [NovoUsuario("u" \o ToString(i) \o "@x.com", "Senha123", "user")
                     EXCEPT !.ativo = (i % 3 # 0)]]

QueriesPag ==
  [page : Pages, limit : Limits]
    \cup [page : Pages, limit : Limits, status : {"pendente"}]

InitPaginas ==
  /\ \E n \in 0..MaxTotal :
       /\ pedidos = PedidosPag(n)
       /\ proxPedidoId = n + 1
       /\ usuarios = UsuariosPag(n)
  /\ tokens = {}
  /\ agora = 0
  /\ criador = <<>>
  /\ emVoo = <<>>
  /\ SemArquivos
  /\ resp = RespInicial

SvcListPedidosPag ==
  /\ \E query \in QueriesPag :
       resp' = Resposta("listPedidos", 0, query, listPedidos(pedidos, query))
  /\ UNCHANGED <<varsPedidos, varsUsuarios, varsArquivos>>

SvcListUsersPag ==
  /\ \E page \in Pages, limit \in Limits :
       resp' = Resposta("listUsers", 0, [page |-> page, limit |-> limit],
                        listUsers(usuarios, page, limit))
  /\ UNCHANGED <<varsPedidos, varsUsuarios, varsArquivos>>

NextPaginas ==
  \/ SvcListPedidosPag
  \/ SvcListUsersPag

SpecPaginas == InitPaginas /\ [][NextPaginas]_vars

\* The records the listing in resp is about
Total ==
  IF resp.op = "listPedidos"
    THEN Cardinality({i \in DOMAIN pedidos :
           "status" \in DOMAIN resp.entrada => pedidos[i].status = resp.entrada.status})
    ELSE Cardinality({i \in DOMAIN usuarios : usuarios[i].ativo})

Itens == IF resp.op = "listPedidos" THEN resp.dados.pedidos ELSE resp.dados.usuarios

Max(a, b) == IF a >= b THEN a ELSE b

\* C23: listPedidos and listUsers with page >= 1 and limit >= 1 over total
\* matching records return min(limit, max(0, total - (page-1)*limit)) items,
\* totalPages = ceil(total/limit), hasNext exactly when page < totalPages and
\* hasPrev exactly when page > 1.
C23_Paginacao ==
  resp.op \in {"listPedidos", "listUsers"} =>
    LET page == resp.entrada.page
        limit == resp.entrada.limit
        pg == resp.dados.pagination
    IN /\ resp.ok
       /\ pg.total = Total
       /\ Len(Itens) = Min(limit, Max(0, Total - (page - 1) * limit))
       /\ pg.totalPages * limit >= Total
       /\ pg.totalPages > 0 => (pg.totalPages - 1) * limit < Total
       /\ pg.totalPages >= 0
       /\ pg.hasNext <=> page < pg.totalPages
       /\ pg.hasPrev <=> page > 1

\* 25 records, limit 10, page 3: 5 items, 3 pages, no next page, a previous one
C23_Witness ==
  /\ resp.op = "listPedidos"
  /\ Total = 25
  /\ resp.entrada.limit = 10
  /\ resp.entrada.page = 3
  /\ Len(Itens) = 5
  /\ resp.dados.pagination.totalPages = 3
  /\ ~resp.dados.pagination.hasNext
  /\ resp.dados.pagination.hasPrev

\* C24: after a registration of A answered 201 with a token, a login with A's
\* email and a wrong password is answered 401 with "Credenciais inválidas",
\* and a login with the right password 200 with a token that verifies to A's
\* id, email and role.
C24_LoginDepoisDeRegistrar ==
  [][/\ (resp'.op = "register" /\ Len(usuarios') > Len(usuarios))
          => resp'.status = 201 /\ resp'.dados.token \in tokens'
     /\ resp'.op = "login" =>
          \A i \in ComEmail(resp'.entrada.email) :
            usuarios[i].ativo =>
              IF usuarios[i].senha # hashPassword(resp'.entrada.senha)
                THEN /\ resp'.status = 401
                     /\ resp'.erro = "Credenciais inválidas"
                ELSE /\ resp'.status = 200
                     /\ verifyToken(resp'.dados.token, agora) = <<Payload(usuarios, i)>>]_vars

\* C25: every response of a controller method, its own 401, 403 and 400
\* rejections included, has a boolean success field; a failure has
\* success = false and an error message, and the status of a caught error is
\* the one it declares, 500 as none does.
C25_EnvelopeDeResposta ==
  (resp.op # "" /\ resp.alcancou) =>
    /\ resp.success \in {"true", "false"}
    /\ resp.status >= 400 => /\ resp.success = "false"
                             /\ resp.erro # ""
    /\ resp.success = "false" => resp.status = 500
    /\ resp.success = "true" => resp.status \in {200, 201}

\* C26: activate(id) on a deactivated user succeeds and sets the user's ativo
\* back to true, so that login and getUserById succeed for them again; no
\* operation removes a row of usuarios.
C26_AtivarDepoisDeDesativar ==
  [][/\ (resp'.op = "activate" /\ Inativo(resp'.id))
          => /\ resp'.ok
             /\ usuarios'[resp'.id].ativo
             /\ getUserById(usuarios', resp'.id).ok
             /\ \A s \in {"Senha123", "Outra456"} :
                  usuarios[resp'.id].senha = hashPassword(s)
                    => login(usuarios', [email |-> usuarios[resp'.id].email, senha |-> s],
                             agora).ok
     /\ DOMAIN usuarios \subseteq DOMAIN usuarios']_vars

\* C27: updatePedido fails with not-found for an absent order and fails for a
\* patch whose preco is <= 0, the store unchanged in both cases; otherwise
\* the fields of the patch, and only they, change on that order alone; so
\* every stored order has preco > 0.
C27_UpdatePedido ==
  [][/\ resp'.op = "updatePedido" =>
          LET id == resp'.id
              data == resp'.entrada
          IN IF id \notin DOMAIN pedidos
               THEN /\ ~resp'.ok
                    /\ resp'.erro = "Pedido não encontrado"
                    /\ pedidos' = pedidos
               ELSE IF "preco" \in DOMAIN data /\ data.preco <= 0
                 THEN ~resp'.ok /\ pedidos' = pedidos
                 ELSE /\ resp'.ok
                      /\ DOMAIN pedidos' = DOMAIN pedidos
                      /\ \A i \in DOMAIN pedidos \ {id} : pedidos'[i] = pedidos[i]
                      /\ \A f \in DOMAIN pedidos[id] :
                           pedidos'[id][f] = IF f \in DOMAIN data THEN data[f]
                                             ELSE pedidos[id][f]
     /\ \A i \in DOMAIN pedidos' : pedidos'[i].preco > 0]_vars

C27_Witness ==
  /\ resp.op = "updatePedido"
  /\ ~resp.ok
  /\ resp.id \in DOMAIN pedidos
  /\ "preco" \in DOMAIN resp.entrada
  /\ resp.entrada.preco = 0
  /\ \E i \in DOMAIN pedidos : pedidos[i].preco = 2 /\ pedidos[i].status = "pronto"

----------------------------------------------------------------------------
\* FileController and createFileRoutes.  The upload routes are left out: they
\* run behind middlewares of securityMiddleware.

\* getStorageStats(userId): the rows counted are those whose usuarioId is
\* userId, all rows when userId is undefined (<<>>)
getStorageStats(st, userId) ==
  LET rows == IF userId = <<>> THEN st.arquivos
              ELSE {a \in st.arquivos : Campo(a, "usuarioId") = userId}
  IN SucessoA(st, [totalFiles |-> Cardinality(rows),
                   tipos |-> {a.tipo : a \in rows}])

CapturadoA(r) == Http(500, "false", r.erro, <<>>, r.st)

SemUsuario(st) == Http(401, "", "Usuário não autenticado", <<>>, st)

FileController_listFiles(st, user) ==
  IF UserId(user) = 0
    THEN SemUsuario(st)
    ELSE LET r == listUserFiles(st, UserId(user), 1, 10)
         IN IF r.ok THEN Http(200, "true", "", r.dados, r.st) ELSE CapturadoA(r)

FileController_getFileInfo(st, user, id) ==
  IF UserId(user) = 0
    THEN SemUsuario(st)
    ELSE LET r == getFileInfo(st, id, UserId(user), Role(user))
         IN IF r.ok THEN Http(200, "true", "", r.dados, r.st) ELSE CapturadoA(r)

FileController_deleteFile(st, user, id) ==
  IF UserId(user) = 0
    THEN SemUsuario(st)
    ELSE LET r == deleteFile(st, id, UserId(user), Role(user))
         IN IF r.ok THEN Http(200, "true", "", <<>>, r.st) ELSE CapturadoA(r)

FileController_getStorageStats(st, user) ==
  IF UserId(user) = 0
    THEN SemUsuario(st)
    ELSE LET r == getStorageStats(st, IF Role(user) = "ADMIN" THEN <<>>
                                       ELSE <<UserId(user)>>)
         IN IF r.ok THEN Http(200, "true", "", r.dados, r.st) ELSE CapturadoA(r)

\* Routes behind fileRoutes.use(path, authMiddleware())
RotasArquivosAuth ==
  {"GET /files/list", "GET /files/info/:id", "DELETE /files/delete/:id", "GET /files/stats"}

\* Routes behind fileRoutes.use('/admin/*', roleMiddleware(['ADMIN']))
RotasArquivosAdmin ==
  {"GET /files/admin/list", "GET /files/admin/stats", "DELETE /files/admin/delete/:id"}

\* The middleware a request to rota goes through.  No path given to
\* authMiddleware() matches /admin/..., so roleMiddleware reads a
\* c.get('user') nothing has set.
fileRoutes_middleware(rota, h, t) ==
  IF rota \in RotasArquivosAdmin
    THEN roleMiddleware({"ADMIN"}, <<>>)
    ELSE authMiddleware(h, t)

fileRoutes(rota, st, user, id) ==
  CASE rota \in {"GET /files/list", "GET /files/admin/list"} ->
         FileController_listFiles(st, user)
    [] rota = "GET /files/info/:id" ->
         FileController_getFileInfo(st, user, id)
    [] rota \in {"DELETE /files/delete/:id", "DELETE /files/admin/delete/:id"} ->
         FileController_deleteFile(st, user, id)
    [] rota \in {"GET /files/stats", "GET /files/admin/stats"} ->
         FileController_getStorageStats(st, user)

\* SpecHttpArquivos: HTTP requests to the /files route table, by the users and
\* with the tokens of SpecHttpPedidos, over the files that uploadFile calls of
\* users 1 and 2 have left.

HttpArquivo(h, rota, id) ==
  /\ \E a \in {fileRoutes_middleware(rota, h, agora)} :
       \E r \in {IF a.passa THEN fileRoutes(rota, Store, a.user, id)
                 ELSE Http(a.status, "", a.erro, <<>>, Store)} :
         /\ Guarda(r.ps)
         /\ resp' = [op |-> rota, id |-> id, entrada |-> <<>>, ok |-> r.status < 400,
                     erro |-> r.erro, dados |-> r.dados, hdr |-> h, status |-> r.status,
                     success |-> r.success, alcancou |-> a.passa, user |-> a.user]
  /\ UNCHANGED <<varsPedidos, varsUsuarios, lote>>

GetFilesList == \E h \in Headers(tokens) : HttpArquivo(h, "GET /files/list", 0)
GetFilesInfo ==
  \E h \in Headers(tokens), id \in IdsArquivos : HttpArquivo(h, "GET /files/info/:id", id)
DeleteFilesDelete ==
  \E h \in Headers(tokens), id \in IdsArquivos :
    HttpArquivo(h, "DELETE /files/delete/:id", id)
GetFilesStats == \E h \in Headers(tokens) : HttpArquivo(h, "GET /files/stats", 0)
GetFilesAdminList == \E h \in Headers(tokens) : HttpArquivo(h, "GET /files/admin/list", 0)
GetFilesAdminStats == \E h \in Headers(tokens) : HttpArquivo(h, "GET /files/admin/stats", 0)
DeleteFilesAdminDelete ==
  \E h \in Headers(tokens), id \in IdsArquivos :
    HttpArquivo(h, "DELETE /files/admin/delete/:id", id)

\* The stores after n uploads of a PNG of one byte, by users 1 and 2 in turn
RECURSIVE Enviados(_)
Enviados(n) ==
  IF n = 0
    THEN [arquivos |-> {}, proxArquivoId |-> 1, objetos |-> {}, proxChave |-> 1]
    ELSE uploadFile(Enviados(n - 1), [size |-> 1, type |-> "image/png"],
                    IF n % 2 = 1 THEN 1 ELSE 2, Options, TRUE).st

InitHttpArquivos ==
  /\ pedidos = <<>>
  /\ proxPedidoId = 1
  /\ usuarios = UsuariosHttp
  /\ tokens = TokensHttp
  /\ agora = 1
  /\ criador = <<>>
  /\ emVoo = <<>>
  /\ \E n \in 0..MaxArquivos :
       /\ arquivos = Enviados(n).arquivos
       /\ proxArquivoId = Enviados(n).proxArquivoId
       /\ objetos = Enviados(n).objetos
       /\ proxChave = Enviados(n).proxChave
  /\ lote = <<>>
  /\ resp = RespInicial

NextHttpArquivos ==
  \/ GetFilesList
  \/ GetFilesInfo
  \/ DeleteFilesDelete
  \/ GetFilesStats
  \/ GetFilesAdminList
  \/ GetFilesAdminStats
  \/ DeleteFilesAdminDelete

SpecHttpArquivos == InitHttpArquivos /\ [][NextHttpArquivos]_vars

\* C28: the role gate runs after authMiddleware() has set the identity: a
\* request with a valid token of an admin to a route under /admin reaches
\* the role check with its identity attached and is not refused there as
\* unauthenticated.
C28_PortaoDepoisDaAutenticacao ==
  [][(resp'.op \in RotasArquivosAdmin /\ TokenValido(resp'.hdr)
        /\ resp'.hdr[2].role = "admin")
       => /\ resp'.user = <<[userId |-> resp'.hdr[2].userId, email |-> resp'.hdr[2].email,
                             role |-> resp'.hdr[2].role]>>
          /\ resp'.status # 401]_vars

----------------------------------------------------------------------------
\* SpecConcPedidos: PedidoService.deletePedido and updateStatus cut at their
\* awaits, after createPedido calls.  A request holds a slot of emVoo between
\* its getPedidoById and its write, as in SpecConc.

\* The request in slot p ends with the result r.
TerminaP(p, r) ==
  /\ pedidos' = r.ps
  /\ resp' = Resposta(emVoo[p].op, emVoo[p].id, emVoo[p].data, r)
  /\ emVoo' = [emVoo EXCEPT ![p] = Livre]
  /\ UNCHANGED <<proxPedidoId, criador, usuarios, tokens, agora, varsArquivos>>

\* The request fails before its first write, or goes on to it.
SegueP(p, op, id, data, msg) ==
  /\ IF msg # ""
       THEN resp' = Resposta(op, id, data, Falha(pedidos, msg)) /\ UNCHANGED emVoo
       ELSE /\ emVoo' = [emVoo EXCEPT ![p] = [op |-> op, pc |-> "write", id |-> id,
                                              data |-> data]]
            /\ UNCHANGED resp
  /\ UNCHANGED <<varsPedidos, usuarios, tokens, agora, varsArquivos>>

\* deletePedido: getPedidoById and the test of the status it read
DeleteGetPedidoById(p) ==
  /\ SlotLivre(p)
  /\ \E id \in Ids :
       LET pedido == getPedidoById(pedidos, id)
       IN SegueP(p, "deletePedido", id, <<>>,
                 IF ~pedido.ok THEN "Pedido não encontrado"
                 ELSE IF pedido.dados[1].status = "entregue"
                   THEN "Não é possível deletar pedidos já entregues"
                   ELSE "")

\* deletePedido: pedidoRepository.delete
DeleteDelete(p) ==
  /\ emVoo[p].op = "deletePedido"
  /\ emVoo[p].pc = "write"
  /\ LET d == PedidoRepository_delete(pedidos, emVoo[p].id)
     IN TerminaP(p, IF d.ok THEN Sucesso(d.ps, <<>>)
                    ELSE Falha(pedidos, "Erro ao deletar pedido"))

\* updateStatus: the test of the status, updatePedido's getPedidoById
StatusGetPedidoById(p) ==
  /\ SlotLivre(p)
  /\ \E id \in Ids, status \in {"preparando", "entregue", "devolvido"} :
       SegueP(p, "updateStatus", id, status,
              IF status \notin ValidStatuses THEN "Status inválido"
              ELSE IF ~getPedidoById(pedidos, id).ok THEN "Pedido não encontrado"
              ELSE "")

\* updateStatus: updatePedido's pedidoRepository.update
StatusUpdate(p) ==
  /\ emVoo[p].op = "updateStatus"
  /\ emVoo[p].pc = "write"
  /\ LET u == PedidoRepository_update(pedidos, emVoo[p].id, [status |-> emVoo[p].data])
     IN TerminaP(p, IF u.ok THEN Sucesso(u.ps, <<u.ps[emVoo[p].id]>>)
                    ELSE Falha(pedidos, "Erro ao atualizar pedido"))

CreatePedidoConc ==
  \E data \in {[cliente |-> <<"A", "n", "a">>, preco |-> 1]} :
    LET r == createPedido(pedidos, proxPedidoId, data)
    IN /\ proxPedidoId <= MaxPedidos
       /\ pedidos' = r.ps
       /\ proxPedidoId' = proxPedidoId + 1
       /\ resp' = Resposta("createPedido", 0, data, r)
       /\ UNCHANGED <<criador, varsUsuarios, varsArquivos>>

NextConcPedidos ==
  \/ CreatePedidoConc
  \/ \E p \in Slots : DeleteGetPedidoById(p)
  \/ \E p \in Slots : DeleteDelete(p)
  \/ \E p \in Slots : StatusGetPedidoById(p)
  \/ \E p \in Slots : StatusUpdate(p)

SpecConcPedidos == InitConc /\ [][NextConcPedidos]_vars

\* C29: with requests interleaved, no order is removed from the store while
\* its status is entregue: when an updateStatus(id, entregue) takes effect
\* between deletePedido's test and its removal, the removal does not happen.
C29_EntregueNuncaRemovido ==
  [][\A i \in DOMAIN pedidos \ DOMAIN pedidos' : pedidos[i].status # "entregue"]_vars

\* C30: the role stored for a user and signed into their tokens is the one
\* the request gives: register, which needs no token, stores the role of its
\* body (admin too), user only when the body has none; update lets a caller
\* who is not an admin set the role of their own record.
C30_RoleVemDoPedido ==
  [][/\ (resp'.op = "register" /\ resp'.ok) =>
          LET id == Len(usuarios')
              role == IF "role" \in DOMAIN resp'.entrada THEN resp'.entrada.role
                      ELSE "user"
          IN /\ resp'.user = <<>>
             /\ Len(usuarios') = Len(usuarios) + 1
             /\ usuarios'[id].role = role
             /\ resp'.dados.token.role = role
     /\ (resp'.op = "login" /\ resp'.ok) =>
          \A i \in ComEmail(resp'.entrada.email) :
            resp'.dados.token.role = usuarios[i].role
     /\ (/\ resp'.op = "update"
         /\ "role" \in DOMAIN resp'.entrada
         /\ resp'.user # <<>>
         /\ UserId(resp'.user) = resp'.id
         /\ Role(resp'.user) # "admin"
         /\ getUserById(usuarios, resp'.id).ok)
          => /\ resp'.ok
             /\ usuarios'[resp'.id].role = resp'.entrada.role]_vars

\* A user registered with no role in the body and a token of role user has
\* made themselves admin
C30_Witness ==
  /\ resp.op = "update"
  /\ resp.ok
  /\ resp.entrada = [role |-> "admin"]
  /\ Role(resp.user) = "user"
  /\ UserId(resp.user) = resp.id
  /\ usuarios[resp.id].role = "admin"
  /\ \E i \in DOMAIN usuarios : i # resp.id /\ usuarios[i].role = "admin"

====
